---------------------------- MODULE Spec2Model ----------------------------
(***************************************************************************)
(* Verification model of the WebSocket frame codec, WebSocketReader,       *)
(* WebSocketWriter and the serve_connection relay                          *)
(* (src/proxmox/src/tools/websocket.rs) and of the accept loop             *)
(* (src/proxmox-rest-server/src/connection.rs).                            *)
(*                                                                         *)
(* Conventions: a byte is a number in 0..255; a byte string is a sequence  *)
(* of bytes; Option<T> is a sequence of length 0 (None) or 1 (Some), except*)
(* Option<[u8; 4]> masks, which are <<>> (None) or the 4-byte sequence.    *)
(***************************************************************************)
EXTENDS Integers, Sequences, FiniteSets, TLC

VARIABLES
  \* ---- codec: create_frame / FrameHeader::try_from_bytes / mask_bytes
  cf_mask,        \* create_frame argument `mask`
  cf_data,        \* create_frame argument `data`
  cf_frametype,   \* create_frame argument `frametype`
  cf_align,       \* address (mod 4) at which the payload box is allocated
  cf_result,      \* <<>> before the call, then <<io::Result<Vec<u8>>>>
  parsed,         \* <<>> or <<result of try_from_bytes on the frame>>
  extracted,      \* <<>> or <<payload recovered with the parsed header>>
  masked,         \* <<>> or <<the payload after mask_bytes has run on it>>
  remasked,       \* <<>> or <<the payload after mask_bytes has run on it twice>>
  \* ---- WebSocketReader and its environment
  src_frames,     \* the frames the source will deliver (kept to state the claims)
  src,            \* the source's byte stream: the frames' encodings, concatenated
  src_expect,     \* Expectation(src_frames), kept to state the claims
  src_pos,        \* number of bytes the reader has read from the source
  reader,         \* WebSocketReader.reader is Some
  read_buffer,    \* WebSocketReader.read_buffer: <<>> (None) or <<bytes>>
  header,         \* WebSocketReader.header: <<>> (None) or <<FrameHeader>>
  state,          \* WebSocketReader.state: "NoData", "WaitingForData", "HaveData"
  rd_future,      \* the buffer owned by the pending read future: <<>> or <<bytes>>
  rd_call,        \* <<>> or <<caller buffer length>> while poll_read runs
  rd_ret,         \* what the last poll_read returned ("none" while one is running)
  out,            \* the bytes returned to the caller so far
  out_pos,        \* for each byte of `out`, its index in `src`
  channel,        \* the control channel: sequence of [op, payload]
  \* ---- WebSocketWriter and its sink
  text,           \* WebSocketWriter.text
  w_mask,         \* WebSocketWriter.mask
  frame,          \* WebSocketWriter.frame: <<>> or <<[bytes, pos, origsize]>>
  sink,           \* the bytes the underlying writer has accepted, in order
  sink_failed,    \* the underlying writer has reported an error
  w_started,      \* number of logical writes begun
  w_spins,        \* number of times the underlying writer accepted no byte
  w_buf,          \* <<>> or <<buffer of the logical write in progress>>
  w_call,         \* poll_write is running (inside its loop)
  w_ret,          \* what the last poll_write returned
  w_done,         \* the buffers of the logical writes that completed, in order
  \* ---- WebSocket::serve_connection and copy_to_websocket
  pc,             \* where the relay is: "select", "write", "pong", "echo",
                  \* "close1000" or "returned"
  cw_buf,         \* copy_to_websocket's `buf`
  eof,            \* copy_to_websocket's `eof`
  ds_reads,       \* number of reads from downstream that returned
  ds_log,         \* the chunks those reads returned, in order
  ctl_out,        \* the part of a control frame write_all has still to write
  ctl_log,        \* every message the reader put on the control channel, in order
  a_result,       \* how ws_future ended ("none" while it has not)
  b_result,       \* how term_future ended ("none" while it has not)
  sv_result,      \* what serve_connection returned ("none" while it runs)
  \* ---- AcceptBuilder::accept_connections and the tasks it spawns
  max_pending_accepts,  \* AcceptBuilder.max_pending_accepts
  sender,         \* the Sender variant: "Secure" or "SecureAndInsecure"
  accepting,      \* the accept loop has not left its loop
  conn,           \* one record per raw connection the listener produced, in order
  secure_channel,     \* streams queued on the secure channel (connection numbers)
  insecure_channel,   \* streams queued on the insecure channel
  secure_receiver,    \* [open, got]: the consumer's end of the secure channel
  insecure_receiver,  \* [open, got]: the consumer's end of the insecure channel
  \* ---- AcceptBuilder::wait_for_client_tls_handshake on the first connection
  client,         \* the bytes the client of the connection sends, in order
  received,       \* how many of them have reached the socket's receive queue
  client_eof,     \* the client has closed its sending side
  peek_buf,       \* buf: the buffer handed to peek
  last_peek_size, \* last_peek_size
  sock_pos,       \* how many bytes have been taken out of the receive queue
  consumer_read,  \* the bytes the consumer has read from the plaintext stream
  \* ---- contains_tls_handshake_fragment on its own
  cl_buf,         \* the slice given to the function
  cl_result,      \* <<what it returned>>, <<>> before the call
  \* ---- FrameHeader::try_from_bytes fed a header piece by piece
  p_in,           \* [first, n, form, mask]: the header the bytes are taken from
  p_len,          \* how many of its bytes the caller has so far
  p_result,       \* <<what try_from_bytes returned on them>>, <<>> before the call
  p_hist,         \* the "need more" values answered so far
  p_created,      \* <<what create_frame returned for the same opcode and length>>
  \* ---- WebSocket::new
  req_headers,    \* the request's HeaderMap: header name -> <<value>> or <<>>
  ws_new,         \* <<what WebSocket::new returned>>, <<>> before the call
  \* ---- TlsAcceptorBuilder
  tls,            \* TlsAcceptorBuilder.tls: <<>> (None) or <<Tls>>
  cipher_suites,  \* TlsAcceptorBuilder.cipher_suites: <<>> or <<string>>
  cipher_list,    \* TlsAcceptorBuilder.cipher_list: <<>> or <<string>>
  builder_calls,  \* the builder methods called so far, with their arguments
  built           \* <<>> before build, then <<what the acceptor was built from>>

codecVars == <<cf_mask, cf_data, cf_frametype, cf_align, cf_result, parsed, extracted, masked, remasked>>

readerVars == <<src_frames, src, src_expect, src_pos, reader, read_buffer, header, state, rd_future,
                rd_call, rd_ret, out, out_pos, channel>>

writerVars == <<text, w_mask, frame, sink, sink_failed, w_started, w_spins, w_buf, w_call, w_ret, w_done>>

relayVars == <<pc, cw_buf, eof, ds_reads, ds_log, ctl_out, ctl_log, a_result, b_result, sv_result>>

acceptVars == <<max_pending_accepts, sender, accepting, conn, secure_channel, insecure_channel,
                secure_receiver, insecure_receiver>>

sniffVars == <<client, received, client_eof, peek_buf, last_peek_size, sock_pos, consumer_read>>

classifierVars == <<cl_buf, cl_result>>

parseVars == <<p_in, p_len, p_result, p_hist, p_created>>

upgradeVars == <<req_headers, ws_new>>

builderVars == <<tls, cipher_suites, cipher_list, builder_calls, built>>

vars == <<codecVars, readerVars, writerVars, relayVars, acceptVars, sniffVars, classifierVars,
          parseVars, upgradeVars, builderVars>>

-----------------------------------------------------------------------------
(* Byte arithmetic *)

Min(a, b) ==
  IF a <= b THEN a ELSE b

\* XOR of two 4-bit values, bit by bit
XorBit(a, b, w) ==
  (((a \div w) % 2) + ((b \div w) % 2)) % 2

XorNibble(a, b) ==
  XorBit(a, b, 1) + (2 * XorBit(a, b, 2)) + (4 * XorBit(a, b, 4)) + (8 * XorBit(a, b, 8))

XorTab ==
  [a \in 0..15 |-> [b \in 0..15 |-> XorNibble(a, b)]]

\* mutant: wrapping addition, which is not its own inverse
Xor_Add(a, b) ==
  (a + b) % 256

\* u8 ^ u8
Xor(a, b) ==
  (16 * XorTab[a \div 16][b \div 16]) + XorTab[a % 16][b % 16]

\* A u32 is held as its four bytes in little-endian order, <<b0, b1, b2, b3>> for
\* b0 + 2^8 b1 + 2^16 b2 + 2^24 b3 (the value itself does not fit TLC's integers).
\* u32::from_le_bytes
U32FromLe(m) ==
  m

\* mutant: the mask word is never rotated
RotR8_None(x, k) ==
  x

\* u32::rotate_right(8), applied k times: the low byte moves to the top
RotR8(x, k) ==
  [j \in 1..4 |-> x[((j - 1 + k) % 4) + 1]]

\* `x as u8`
AsU8(x) ==
  x[1]

\* byte j (0-based, memory order on a little-endian target) of a u32
LeByte(x, j) ==
  x[j + 1]

\* big-endian encoding of a length in `width` bytes (lengths stay below 2^31)
BeBytes(n, width) ==
  [i \in 1..width |-> IF width - i > 3 THEN 0 ELSE (n \div (256 ^ (width - i))) % 256]

BeValue(bytes) ==
  LET RECURSIVE go(_, _)
      go(i, acc) == IF i > Len(bytes) THEN acc ELSE go(i + 1, (acc * 256) + bytes[i])
  IN go(1, 0)

-----------------------------------------------------------------------------
(* OpCode *)

Continuation == 0
Text == 1
Binary == 2
Close == 8
Ping == 9
Pong == 10

OpCodes == {Continuation, Text, Binary, Close, Ping, Pong}

\* OpCode::is_control: (self as u8 & 0b1000) > 0
is_control(op) ==
  (op \div 8) % 2 = 1

U16_MAX == 65535

-----------------------------------------------------------------------------
(* mask_bytes: `align` is the address of data[0] modulo 4, which decides   *)
(* how align_to_mut::<u32> splits a buffer of 32 or more bytes.            *)

mask_bytes(mask, data, align) ==
  IF mask = <<>> \/ mask = <<0, 0, 0, 0>> THEN data
  ELSE IF Len(data) < 32
    THEN [i \in 1..Len(data) |-> Xor(data[i], mask[((i - 1) % 4) + 1])]
    ELSE LET newmask == U32FromLe(mask)
             plen == (4 - align) % 4                  \* prefix bytes
             mlen == 4 * ((Len(data) - plen) \div 4)  \* bytes in the aligned middle
             afterPrefix == RotR8(newmask, plen)
         IN [i \in 1..Len(data) |->
               IF i <= plen
                 THEN Xor(data[i], AsU8(RotR8(newmask, i - 1)))
               ELSE IF i <= plen + mlen
                 THEN Xor(data[i], LeByte(afterPrefix, (i - 1 - plen) % 4))
               ELSE Xor(data[i], AsU8(RotR8(afterPrefix, i - 1 - plen - mlen)))]

-----------------------------------------------------------------------------
(* create_frame: io::Result<Vec<u8>> as [ok |-> FALSE] or [ok |-> TRUE,    *)
(* bytes |-> ...].                                                         *)

\* mutant: 126 taken for a literal length
LengthField_Literal126(mask_bit, len) ==
  IF len <= 126 THEN <<mask_bit + len>>
  ELSE IF len < U16_MAX THEN <<mask_bit + 126>> \o BeBytes(len, 2)
  ELSE <<mask_bit + 127>> \o BeBytes(len, 8)

LengthField(mask_bit, len) ==
  IF len < 126 THEN <<mask_bit + len>>
  ELSE IF len < U16_MAX THEN <<mask_bit + 126>> \o BeBytes(len, 2)
  ELSE <<mask_bit + 127>> \o BeBytes(len, 8)

\* mutant: the fin bit is left out
FirstByte_NoFin(frametype) ==
  frametype

\* line 141: 0b10000000 | (frametype as u8)
FirstByte(frametype) ==
  128 + frametype

create_frame(mask, data, frametype, align) ==
  LET first_byte == FirstByte(frametype)
      len == Len(data)
      mask_bit == IF mask # <<>> THEN 128 ELSE 0
  IN IF is_control(frametype) /\ len > 125
       THEN [ok |-> FALSE]
       ELSE [ok |-> TRUE,
             bytes |-> <<first_byte>> \o LengthField(mask_bit, len) \o mask
                       \o mask_bytes(mask, data, align)]

-----------------------------------------------------------------------------
(* FrameHeader::try_from_bytes: [kind |-> "Invalid"], [kind |-> "Need",    *)
(* n |-> missing bytes] or [kind |-> "Header", ...].                       *)

OpCodeOf(b) ==
  b % 16

HeaderRec(fin, mask, frametype, header_len, payload_len) ==
  [kind |-> "Header", fin |-> fin, mask |-> mask, frametype |-> frametype,
   header_len |-> header_len, payload_len |-> payload_len]

\* mutant: the reserved bits are not looked at
ReservedBits_Ignored(b) ==
  0

\* line 333: data[0] & 0b01110000
ReservedBits(b) ==
  (b \div 16) % 8

\* mutant: a control payload of 126 bytes passes
ControlTooLong_Over126(payload_len, frametype) ==
  payload_len > 126 /\ is_control(frametype)

\* line 387: payload_len > 125 && frametype.is_control()
ControlTooLong(payload_len, frametype) ==
  payload_len > 125 /\ is_control(frametype)

\* mutant: one byte more than the stage needs is asked for
Missing_OneMore(want, len) ==
  want - len + 1

\* mutant: the whole size wanted is reported, not what is missing of it
Missing_Whole(want, len) ==
  want

\* lines 328, 369, 377, 397: Ok(Err(want - len))
Missing(want, len) ==
  want - len

\* mutant: a control frame without fin is taken
FragmentedControl_Allowed(fin, frametype) ==
  FALSE

\* line 354: !fin && frametype.is_control()
FragmentedControl(fin, frametype) ==
  ~fin /\ is_control(frametype)

try_from_bytes(data) ==
  LET len == Len(data) IN
  IF len < 2 THEN [kind |-> "Need", n |-> Missing(2, len)]
  ELSE IF ReservedBits(data[1]) > 0 THEN [kind |-> "Invalid"]
  ELSE IF OpCodeOf(data[1]) \notin OpCodes THEN [kind |-> "Invalid"]
  ELSE
    LET fin == data[1] >= 128
        frametype == OpCodeOf(data[1])
        mask_bit == data[2] >= 128
        code == data[2] % 128
        ext == CASE code = 126 -> 2 [] code = 127 -> 8 [] OTHER -> 0
        mask_offset == 2 + ext
        payload_offset == mask_offset + (IF mask_bit THEN 4 ELSE 0)
    IN IF FragmentedControl(fin, frametype) THEN [kind |-> "Invalid"]
       ELSE IF len < 2 + ext THEN [kind |-> "Need", n |-> Missing(2 + ext, len)]
       ELSE
         LET payload_len == IF ext = 0 THEN code
                            ELSE BeValue(SubSeq(data, 3, 2 + ext))
         IN IF ControlTooLong(payload_len, frametype) THEN [kind |-> "Invalid"]
            ELSE IF mask_bit /\ len < mask_offset + 4
              THEN [kind |-> "Need", n |-> Missing(mask_offset + 4, len)]
            ELSE HeaderRec(fin,
                           IF mask_bit THEN SubSeq(data, mask_offset + 1, payload_offset)
                                       ELSE <<>>,
                           frametype, payload_offset, payload_len)

-----------------------------------------------------------------------------
(* Codec specification: create_frame on bounded inputs, then                *)
(* try_from_bytes on its output, then unmasking of the bytes after          *)
(* header_len with the parsed mask.                                         *)

MaxPayloadLen == 2

DataBytes == {0, 129, 255}

RECURSIVE SeqsUpTo(_, _)
SeqsUpTo(S, n) ==
  IF n = 0 THEN {<<>>}
  ELSE LET shorter == SeqsUpTo(S, n - 1)
       IN shorter \cup {Append(q, x) : q \in {r \in shorter : Len(r) = n - 1}, x \in S}

\* payload sizes at which the length encoding or the masking loop changes, and
\* sizes on both sides of a whole number of mask words
BoundarySizes == {3, 4, 31, 32, 33, 100, 125, 126, 65535, 65536}

Pattern(n) ==
  [i \in 1..n |-> (i * 7) % 256]

\* the payload and the mask of the examples in create_frame's documentation
DocData == <<0, 1, 2, 3, 4>>

DocMask == <<0, 1, 2, 3>>

Payloads ==
  SeqsUpTo(DataBytes, MaxPayloadLen) \cup {Pattern(n) : n \in BoundarySizes} \cup {DocData}

Masks == {<<>>, <<0, 0, 0, 0>>, <<1, 2, 3, 4>>, <<255, 0, 128, 7>>, DocMask}

\* masks tried with a payload: the 64 KiB payloads exercise the length field and
\* the header layout (mask bit and mask bytes included), the shorter ones the
\* masking itself
MasksFor(data) ==
  IF Len(data) > 126 THEN {<<>>, <<0, 0, 0, 0>>} ELSE Masks

\* the allocation's alignment only matters to mask_bytes from 32 bytes on
Aligns(len) ==
  IF len < 32 THEN {0} ELSE 0..3

CodecInit ==
  /\ cf_data \in Payloads
  /\ cf_mask \in MasksFor(cf_data)
  /\ cf_frametype \in OpCodes
  /\ cf_align \in Aligns(Len(cf_data))
  /\ cf_result = <<>>
  /\ parsed = <<>>
  /\ extracted = <<>>
  /\ masked = <<>>
  /\ remasked = <<>>

CodecIdle ==
  /\ cf_mask = <<>>
  /\ cf_data = <<>>
  /\ cf_frametype = Text
  /\ cf_align = 0
  /\ cf_result = <<>>
  /\ parsed = <<>>
  /\ extracted = <<>>
  /\ masked = <<>>
  /\ remasked = <<>>

CreateFrame ==
  /\ cf_result = <<>>
  /\ cf_result' = <<create_frame(cf_mask, cf_data, cf_frametype, cf_align)>>
  /\ UNCHANGED <<cf_mask, cf_data, cf_frametype, cf_align, parsed, extracted, masked, remasked>>
  /\ UNCHANGED <<sniffVars, classifierVars, parseVars, upgradeVars, builderVars, acceptVars, readerVars,
                 writerVars, relayVars>>

ParseHeader ==
  /\ cf_result # <<>>
  /\ cf_result[1].ok
  /\ parsed = <<>>
  /\ parsed' = <<try_from_bytes(cf_result[1].bytes)>>
  /\ UNCHANGED <<cf_mask, cf_data, cf_frametype, cf_align, cf_result, extracted, masked, remasked>>
  /\ UNCHANGED <<sniffVars, classifierVars, parseVars, upgradeVars, builderVars, acceptVars, readerVars,
                 writerVars, relayVars>>

ExtractPayload ==
  /\ parsed # <<>>
  /\ parsed[1].kind = "Header"
  /\ extracted = <<>>
  /\ LET h == parsed[1]
         body == SubSeq(cf_result[1].bytes, h.header_len + 1, h.header_len + h.payload_len)
     IN \E al \in Aligns(Len(body)) : extracted' = <<mask_bytes(h.mask, body, al)>>
  /\ UNCHANGED <<cf_mask, cf_data, cf_frametype, cf_align, cf_result, parsed, masked, remasked>>
  /\ UNCHANGED <<sniffVars, classifierVars, parseVars, upgradeVars, builderVars, acceptVars, readerVars,
                 writerVars, relayVars>>

CodecNext ==
  \/ CreateFrame
  \/ ParseHeader
  \/ ExtractPayload

-----------------------------------------------------------------------------
(* mask_bytes on its own: run on a payload in a buffer at the alignment     *)
(* cf_align, then run again with the same mask on what the first run left,  *)
(* in a buffer at any alignment.                                            *)

MaskInit ==
  /\ CodecInit
  /\ cf_frametype = Binary

MaskOnce ==
  /\ masked = <<>>
  /\ masked' = <<mask_bytes(cf_mask, cf_data, cf_align)>>
  /\ UNCHANGED <<cf_mask, cf_data, cf_frametype, cf_align, cf_result, parsed, extracted, remasked>>
  /\ UNCHANGED <<sniffVars, classifierVars, parseVars, upgradeVars, builderVars, acceptVars, readerVars,
                 writerVars, relayVars>>

MaskTwice ==
  /\ masked # <<>>
  /\ remasked = <<>>
  /\ \E al \in Aligns(Len(cf_data)) : remasked' = <<mask_bytes(cf_mask, masked[1], al)>>
  /\ UNCHANGED <<cf_mask, cf_data, cf_frametype, cf_align, cf_result, parsed, extracted, masked>>
  /\ UNCHANGED <<sniffVars, classifierVars, parseVars, upgradeVars, builderVars, acceptVars, readerVars,
                 writerVars, relayVars>>

MaskNext ==
  \/ MaskOnce
  \/ MaskTwice

-----------------------------------------------------------------------------
(* ByteBuffer (crate::tools::byte_buffer): a fixed-capacity FIFO of bytes.  *)

\* capacity of the reader's receive buffer (4096 in WebSocketReader::new), scaled
\* down; it exceeds every header and every control payload of the modelled frames,
\* as 4096 exceeds the 14-byte header and the 125-byte control payload
Capacity == 8

\* ByteBuffer::remove_data(n): the first min(n, len) bytes
Front(buf, n) ==
  SubSeq(buf, 1, Min(n, Len(buf)))

\* ByteBuffer::consume(n) / what remove_data(n) leaves behind
Rest(buf, n) ==
  SubSeq(buf, Min(n, Len(buf)) + 1, Len(buf))

-----------------------------------------------------------------------------
(* The source of a WebSocketReader: a sequence of well-formed frames.       *)

MaxFrames == 2

Frame(fin, op, mask, payload) ==
  [fin |-> fin, op |-> op, mask |-> mask, payload |-> payload]

\* payloads are given as the application sees them (before masking)
FrameChoices ==
  { Frame(FALSE, Text, <<>>, <<129, 2>>),
    Frame(TRUE, Binary, <<1, 2, 3, 4>>, <<16, 32, 48, 64, 80>>),
    Frame(TRUE, Continuation, <<1, 2, 3, 4>>, <<>>),
    Frame(TRUE, Ping, <<1, 2, 3, 4>>, <<7, 130>>),
    Frame(TRUE, Pong, <<>>, <<>>),
    Frame(TRUE, Close, <<>>, <<3, 232>>) }

\* the frame on the wire: create_frame's encoding, with the fin bit cleared for a
\* non-final fragment (create_frame itself always sets it)
Encode(f) ==
  LET bytes == create_frame(f.mask, f.payload, f.op, 0).bytes
  IN IF f.fin THEN bytes ELSE <<bytes[1] - 128>> \o Tail(bytes)

RECURSIVE Concat(_)
Concat(ss) ==
  IF ss = <<>> THEN <<>> ELSE Head(ss) \o Concat(Tail(ss))

EncodeAll(frames) ==
  Concat([i \in 1..Len(frames) |-> Encode(frames[i])])

DataOps == {Continuation, Text, Binary}

RECURSIVE DataPositionsFrom(_, _)
\* indexes in src of the payload bytes of the data frames, `base` bytes into src
DataPositionsFrom(frames, base) ==
  IF frames = <<>> THEN <<>>
  ELSE LET f == Head(frames)
           flen == Len(Encode(f))
           hlen == flen - Len(f.payload)
       IN (IF f.op \in DataOps
             THEN [i \in 1..Len(f.payload) |-> base + hlen + i]
             ELSE <<>>)
          \o DataPositionsFrom(Tail(frames), base + flen)

RECURSIVE DataPayloads(_)
\* the data frames' payloads, each unmasked in one piece, concatenated
DataPayloads(frames) ==
  IF frames = <<>> THEN <<>>
  ELSE (IF Head(frames).op \in DataOps THEN Head(frames).payload ELSE <<>>)
       \o DataPayloads(Tail(frames))

RECURSIVE MaskedPositionsFrom(_, _)
\* indexes in src of the bytes of masked frames
MaskedPositionsFrom(frames, base) ==
  IF frames = <<>> THEN {}
  ELSE LET flen == Len(Encode(Head(frames)))
       IN (IF Head(frames).mask # <<>> THEN (base + 1)..(base + flen) ELSE {})
          \cup MaskedPositionsFrom(Tail(frames), base + flen)

\* what a stream of frames obliges the reader to return
Expectation(frames) ==
  [pos |-> DataPositionsFrom(frames, 0),
   bytes |-> DataPayloads(frames),
   masked |-> MaskedPositionsFrom(frames, 0)]

ReaderInit ==
  /\ src_frames \in SeqsUpTo(FrameChoices, MaxFrames) \ {<<>>}
  /\ src = EncodeAll(src_frames)
  /\ src_expect = Expectation(src_frames)
  /\ src_pos = 0
  /\ reader = TRUE
  /\ read_buffer = << <<>> >>
  /\ header = <<>>
  /\ state = "NoData"
  /\ rd_future = <<>>
  /\ rd_call = <<>>
  /\ rd_ret = [kind |-> "none"]
  /\ out = <<>>
  /\ out_pos = <<>>
  /\ channel = <<>>

\* headers try_from_bytes refuses: a reserved bit (0x10, 0x40), the opcode 3, a
\* Ping without fin, a Ping announcing 126 bytes of payload
MalformedHeaders ==
  {<<145, 0>>, <<193, 0>>, <<131, 0>>, <<9, 0>>, <<137, 126, 0, 126>>}

\* what precedes the malformed header: a fragment, a masked data frame, a Ping
FramesBefore ==
  { Frame(FALSE, Text, <<>>, <<129, 2>>),
    Frame(TRUE, Binary, <<1, 2, 3, 4>>, <<16, 32, 48, 64, 80>>),
    Frame(TRUE, Ping, <<1, 2, 3, 4>>, <<7, 130>>) }

\* what follows the malformed header: a data frame or a control frame
FramesAfter ==
  { Frame(TRUE, Binary, <<1, 2, 3, 4>>, <<16, 32, 48, 64, 80>>),
    Frame(TRUE, Ping, <<1, 2, 3, 4>>, <<7, 130>>) }

\* a source that delivers well-formed frames (src_frames), then a malformed
\* header, then a further well-formed frame
MalformedInit ==
  /\ src_frames \in SeqsUpTo(FramesBefore, MaxFrames - 1)
  /\ \E bad \in MalformedHeaders, after \in FramesAfter :
       src = EncodeAll(src_frames) \o bad \o Encode(after)
  /\ src_expect = Expectation(src_frames)
  /\ src_pos = 0
  /\ reader = TRUE
  /\ read_buffer = << <<>> >>
  /\ header = <<>>
  /\ state = "NoData"
  /\ rd_future = <<>>
  /\ rd_call = <<>>
  /\ rd_ret = [kind |-> "none"]
  /\ out = <<>>
  /\ out_pos = <<>>
  /\ channel = <<>>

\* the reader's variables while another component is under study
ReaderIdle ==
  /\ src_frames = <<>>
  /\ src = <<>>
  /\ src_expect = Expectation(<<>>)
  /\ src_pos = 0
  /\ reader = TRUE
  /\ read_buffer = << <<>> >>
  /\ header = <<>>
  /\ state = "NoData"
  /\ rd_future = <<>>
  /\ rd_call = <<>>
  /\ rd_ret = [kind |-> "none"]
  /\ out = <<>>
  /\ out_pos = <<>>
  /\ channel = <<>>

-----------------------------------------------------------------------------
(* WebSocketReader::poll_read.  A call starts with PollRead (the caller's   *)
(* buffer length is chosen freely) and then runs the loop one match arm at  *)
(* a time until an arm returns.                                             *)

MaxBufLen == 2

Ret(kind, n) ==
  [kind |-> kind, n |-> n]

PollRead ==
  /\ rd_call = <<>>
  /\ \E buflen \in 1..MaxBufLen : rd_call' = <<buflen>>
  /\ rd_ret' = [kind |-> "none"]
  /\ UNCHANGED <<src_frames, src, src_expect, src_pos, reader, read_buffer, header, state, rd_future,
                 out, out_pos, channel>>
  /\ UNCHANGED <<sniffVars, classifierVars, parseVars, upgradeVars, builderVars, acceptVars, codecVars,
                 writerVars, relayVars>>

\* ReaderState::NoData: move reader and buffer into a read future
ArmNoData ==
  /\ rd_call # <<>>
  /\ state = "NoData"
  /\ IF ~reader
       THEN /\ rd_ret' = Ret("Err", 0)
            /\ rd_call' = <<>>
            /\ UNCHANGED <<reader, read_buffer, state, rd_future>>
       ELSE IF read_buffer = <<>>
         THEN /\ reader' = FALSE
              /\ rd_ret' = Ret("Err", 0)
              /\ rd_call' = <<>>
              /\ UNCHANGED <<read_buffer, state, rd_future>>
         ELSE /\ reader' = FALSE
              /\ read_buffer' = <<>>
              /\ rd_future' = read_buffer
              /\ state' = "WaitingForData"
              /\ UNCHANGED <<rd_call, rd_ret>>
  /\ UNCHANGED <<src_frames, src, src_expect, src_pos, header, out, out_pos, channel>>
  /\ UNCHANGED <<sniffVars, classifierVars, parseVars, upgradeVars, builderVars, acceptVars, codecVars,
                 writerVars, relayVars>>

\* ReaderState::WaitingForData, the future is not ready: ready! returns Pending
ArmWaitingPending ==
  /\ rd_call # <<>>
  /\ state = "WaitingForData"
  /\ src_pos < Len(src)
  /\ rd_call' = <<>>
  /\ rd_ret' = Ret("Pending", 0)
  /\ UNCHANGED <<src_frames, src, src_expect, src_pos, reader, read_buffer, header, state, rd_future,
                 out, out_pos, channel>>
  /\ UNCHANGED <<sniffVars, classifierVars, parseVars, upgradeVars, builderVars, acceptVars, codecVars,
                 writerVars, relayVars>>

\* bytes one read_from_async may deliver: any positive count that fits the free
\* space and the source has; 0 when the buffer is full or the source is at EOF
ReadSizes(buf) ==
  LET most == Min(Capacity - Len(buf), Len(src) - src_pos)
  IN IF most = 0 THEN {0} ELSE 1..most

\* mutant: a read of no bytes is treated like any other
NothingRead_Ignored(len) ==
  FALSE

\* line 499: if len == 0
NothingRead(len) ==
  len = 0

\* ReaderState::WaitingForData, the future completes with Ok(ReadResult)
ArmWaitingReady ==
  /\ rd_call # <<>>
  /\ state = "WaitingForData"
  /\ \E len \in ReadSizes(rd_future[1]) :
       /\ src_pos' = src_pos + len
       /\ read_buffer' = <<rd_future[1] \o SubSeq(src, src_pos + 1, src_pos + len)>>
       /\ reader' = TRUE
       /\ rd_future' = <<>>
       /\ state' = "HaveData"
       /\ IF NothingRead(len)
            THEN rd_call' = <<>> /\ rd_ret' = Ret("Ok", 0)
            ELSE UNCHANGED <<rd_call, rd_ret>>
  /\ UNCHANGED <<src_frames, src, src_expect, header, out, out_pos, channel>>
  /\ UNCHANGED <<sniffVars, classifierVars, parseVars, upgradeVars, builderVars, acceptVars, codecVars,
                 writerVars, relayVars>>

\* mutant: the control frame is delivered with whatever is buffered
PayloadBuffered_Always(h, buf) ==
  TRUE

\* line 530: read_buffer.len() >= header.payload_len
PayloadBuffered(h, buf) ==
  Len(buf) >= h.payload_len

\* lines 529-551: a control frame goes to the channel once its payload is buffered
ControlFrame(h, buf) ==
  IF PayloadBuffered(h, buf)
    THEN /\ \E al \in Aligns(h.payload_len) :
              channel' = Append(channel,
                                [op |-> h.frametype,
                                 payload |-> mask_bytes(h.mask, Front(buf, h.payload_len), al)])
         /\ state' = IF Rest(buf, h.payload_len) = <<>> THEN "NoData" ELSE "HaveData"
         /\ read_buffer' = <<Rest(buf, h.payload_len)>>
         /\ header' = <<>>
    ELSE /\ header' = <<h>>
         /\ read_buffer' = <<buf>>
         /\ state' = "NoData"
         /\ UNCHANGED channel

\* mutant: the frame's remaining payload does not limit the copy
CopyLen_WholeBuffer(space, h, buf) ==
  Min(space, Len(buf))

\* line 553: min(buf.len() - offset, min(header.payload_len, read_buffer.len()))
CopyLen(space, h, buf) ==
  Min(space, Min(h.payload_len, Len(buf)))

\* lines 553-575: a data frame's buffered payload is copied to the caller.  The
\* buffer holds the last Len(buf) bytes read from the source, so buf[1] is
\* src[first].
DataFrame(h, buf) ==
  LET len == CopyLen(rd_call[1], h, buf)
      first == src_pos - Len(buf) + 1
  IN /\ \E al \in Aligns(len) : out' = out \o mask_bytes(h.mask, Front(buf, len), al)
     /\ out_pos' = out_pos \o [i \in 1..len |-> first + i - 1]
     /\ header' = IF h.payload_len - len > 0
                    THEN <<[h EXCEPT !.payload_len = h.payload_len - len]>>
                    ELSE <<>>
     /\ state' = IF Rest(buf, len) = <<>> THEN "NoData" ELSE "HaveData"
     /\ read_buffer' = <<Rest(buf, len)>>
     /\ IF len > 0
          THEN /\ rd_call' = <<>>
               /\ rd_ret' = Ret("Ok", len)
          ELSE UNCHANGED <<rd_call, rd_ret>>

\* mutant: the parsed header is left in the buffer
AfterHeader_NotConsumed(buf, h) ==
  buf

\* line 524: read_buffer.consume(header.header_len)
AfterHeader(buf, h) ==
  Rest(buf, h.header_len)

\* ReaderState::HaveData
ArmHaveData ==
  /\ rd_call # <<>>
  /\ state = "HaveData"
  /\ IF read_buffer = <<>>
       THEN /\ rd_call' = <<>>
            /\ rd_ret' = Ret("Err", 0)
            /\ UNCHANGED <<read_buffer, header, state, out, out_pos, channel>>
       ELSE
         LET buf == read_buffer[1]
             r == try_from_bytes(buf)
         IN IF header # <<>>
              THEN IF is_control(header[1].frametype)
                     THEN /\ ControlFrame(header[1], buf)
                          /\ UNCHANGED <<rd_call, rd_ret, out, out_pos>>
                     ELSE /\ DataFrame(header[1], buf)
                          /\ UNCHANGED channel
            ELSE IF r.kind = "Invalid"
              THEN /\ read_buffer' = <<>>
                   /\ rd_call' = <<>>
                   /\ rd_ret' = Ret("Err", 0)
                   /\ UNCHANGED <<header, state, out, out_pos, channel>>
            ELSE IF r.kind = "Need"
              THEN /\ state' = "NoData"
                   /\ UNCHANGED <<read_buffer, header, rd_call, rd_ret, out, out_pos,
                                  channel>>
            ELSE IF is_control(r.frametype)
              THEN /\ ControlFrame(r, AfterHeader(buf, r))
                   /\ UNCHANGED <<rd_call, rd_ret, out, out_pos>>
              ELSE /\ DataFrame(r, AfterHeader(buf, r))
                   /\ UNCHANGED channel
  /\ UNCHANGED <<src_frames, src, src_expect, src_pos, reader, rd_future>>
  /\ UNCHANGED <<sniffVars, classifierVars, parseVars, upgradeVars, builderVars, acceptVars, codecVars,
                 writerVars, relayVars>>

ReaderNext ==
  \/ PollRead
  \/ ArmNoData
  \/ ArmWaitingPending
  \/ ArmWaitingReady
  \/ ArmHaveData

-----------------------------------------------------------------------------
(* WebSocketWriter::poll_write.  A logical write (AsyncWriteExt::write)     *)
(* polls with the same buffer until poll_write is Ready.  A poll is         *)
(* PollWrite followed by the underlying writer's answers, one per turn of   *)
(* the loop.                                                                *)

MaxWriteLen == 2

MaxWrites == 2

WriteBytes == {7, 129}

WriterMasks == {<<>>, <<1, 2, 3, 4>>}

WriterInit ==
  /\ text \in BOOLEAN
  /\ w_mask \in WriterMasks
  /\ frame = <<>>
  /\ sink = <<>>
  /\ sink_failed = FALSE
  /\ w_started = 0
  /\ w_spins = 0
  /\ w_buf = <<>>
  /\ w_call = FALSE
  /\ w_ret = [kind |-> "none"]
  /\ w_done = <<>>

WriterIdle ==
  /\ text = FALSE
  /\ w_mask = <<>>
  /\ frame = <<>>
  /\ sink = <<>>
  /\ sink_failed = FALSE
  /\ w_started = 0
  /\ w_spins = 0
  /\ w_buf = <<>>
  /\ w_call = FALSE
  /\ w_ret = [kind |-> "none"]
  /\ w_done = <<>>

\* lines 225-228
FrameType(t) ==
  IF t THEN Text ELSE Binary

\* line 238: Some((frame, 0, buf.len()))
NewFrame(bytes, buf) ==
  [bytes |-> bytes, pos |-> 0, origsize |-> Len(buf)]

\* mutant: a resumed write starts over from the frame's first byte
Unsent_FromStart(fr) ==
  fr.bytes

\* line 244: &buf[*pos..]
Unsent(fr) ==
  SubSeq(fr.bytes, fr.pos + 1, Len(fr.bytes))

\* line 248: the size a completed write reports
Reported(fr) ==
  fr.origsize

\* the caller begins a logical write
StartWrite ==
  /\ w_buf = <<>>
  /\ w_started < MaxWrites
  /\ ~w_call
  /\ \E b \in SeqsUpTo(WriteBytes, MaxWriteLen) : w_buf' = <<b>>
  /\ w_started' = w_started + 1
  /\ UNCHANGED <<text, w_mask, frame, sink, sink_failed, w_spins, w_call, w_ret, w_done>>
  /\ UNCHANGED <<sniffVars, classifierVars, parseVars, upgradeVars, builderVars, acceptVars, codecVars,
                 readerVars, relayVars>>

\* lines 223-242: entering poll_write; the frame is built unless one is in flight
PollWriteStep ==
  /\ w_buf # <<>>
  /\ ~w_call
  /\ IF frame = <<>>
       THEN \E al \in Aligns(Len(w_buf[1])) :
              LET f == create_frame(w_mask, w_buf[1], FrameType(text), al)
              IN IF f.ok
                   THEN /\ frame' = <<NewFrame(f.bytes, w_buf[1])>>
                        /\ w_call' = TRUE
                        /\ UNCHANGED <<w_ret, w_buf>>
                   ELSE /\ w_ret' = [kind |-> "Err"]
                        /\ w_buf' = <<>>
                        /\ UNCHANGED <<frame, w_call>>
       ELSE /\ w_call' = TRUE
            /\ UNCHANGED <<frame, w_ret, w_buf>>
  /\ UNCHANGED <<text, w_mask, sink, sink_failed, w_started, w_spins, w_done>>

\* line 244, the underlying poll_write is Pending: ready! returns Pending
SinkPendingStep ==
  /\ w_call
  /\ w_call' = FALSE
  /\ w_ret' = [kind |-> "Pending"]
  /\ UNCHANGED <<text, w_mask, frame, sink, sink_failed, w_started, w_spins, w_buf, w_done>>

\* lines 245-252, the underlying poll_write accepts `size` bytes of the rest
SinkAcceptStep ==
  /\ w_call
  /\ \E size \in 1..Len(Unsent(frame[1])) :
       LET fr == [frame[1] EXCEPT !.pos = @ + size]
       IN /\ sink' = sink \o SubSeq(Unsent(frame[1]), 1, size)
          /\ IF fr.pos = Len(fr.bytes)
               THEN /\ frame' = <<>>
                    /\ w_ret' = [kind |-> "Ok", n |-> Reported(fr)]
                    /\ w_call' = FALSE
                    /\ w_done' = Append(w_done, w_buf[1])
                    /\ w_buf' = <<>>
               ELSE /\ frame' = <<fr>>
                    /\ UNCHANGED <<w_ret, w_call, w_done, w_buf>>
  /\ UNCHANGED <<text, w_mask, sink_failed, w_started, w_spins>>

MaxSpins == 2

\* lines 245-252, the underlying poll_write is Ready(Ok(0)): the offset stays,
\* `*pos == buf.len()` is false (a frame has at least two bytes) and the loop
\* hands the underlying writer the same bytes again
SinkAcceptsNothingStep ==
  /\ w_call
  /\ w_spins < MaxSpins
  /\ w_spins' = w_spins + 1
  /\ UNCHANGED <<text, w_mask, frame, sink, sink_failed, w_started, w_buf, w_call, w_ret, w_done>>

\* lines 253-256, the underlying poll_write fails: the error is returned and the
\* frame stays in place
SinkErrorStep ==
  /\ w_call
  /\ w_call' = FALSE
  /\ w_ret' = [kind |-> "Err"]
  /\ sink_failed' = TRUE
  /\ w_buf' = <<>>
  /\ UNCHANGED <<text, w_mask, frame, sink, w_started, w_spins, w_done>>

\* the same steps with a caller that only writes
PollWrite ==
  PollWriteStep /\ UNCHANGED <<sniffVars, classifierVars, parseVars, upgradeVars, builderVars, acceptVars,
                               codecVars, readerVars, relayVars>>

SinkPending ==
  SinkPendingStep /\ UNCHANGED <<sniffVars, classifierVars, parseVars, upgradeVars, builderVars,
                                 acceptVars, codecVars, readerVars, relayVars>>

SinkAccept ==
  SinkAcceptStep /\ UNCHANGED <<sniffVars, classifierVars, parseVars, upgradeVars, builderVars, acceptVars,
                                codecVars, readerVars, relayVars>>

SinkError ==
  SinkErrorStep /\ UNCHANGED <<sniffVars, classifierVars, parseVars, upgradeVars, builderVars, acceptVars,
                               codecVars, readerVars, relayVars>>

WriterNext ==
  \/ StartWrite
  \/ PollWrite
  \/ SinkPending
  \/ SinkAccept
  \/ SinkError

SinkAcceptsNothing ==
  SinkAcceptsNothingStep /\ UNCHANGED <<sniffVars, classifierVars, parseVars, upgradeVars, builderVars,
                                        acceptVars, codecVars, readerVars, relayVars>>

\* the writer on an underlying writer that may also accept no byte
ZeroSinkNext ==
  \/ StartWrite
  \/ PollWrite
  \/ SinkPending
  \/ SinkAccept
  \/ SinkError
  \/ SinkAcceptsNothing

-----------------------------------------------------------------------------
(* WebSocket::serve_connection.  ws_future (tokio::io::copy from the        *)
(* WebSocketReader to downstream) appears through what it does to the relay:*)
(* it puts control messages on the channel and it ends.  term_future        *)
(* (copy_to_websocket) is followed statement by statement.  Both are polled *)
(* by one select!, so ws_future acts only while term_future is not inside a *)
(* poll of the underlying writer.                                           *)

MaxDsReads == 1

MaxCtl == 2

\* the chunks the read from downstream may deliver after `n` earlier reads
\* (the relay never looks at the bytes: one value per read, each its own)
DsChunks(n) ==
  {<<129 + n>>}

\* the control messages the reader may deliver (FrameHeader::try_from_bytes
\* admits control frames of at most 125 bytes)
ControlMessages ==
  {[op |-> Ping, payload |-> <<>>], [op |-> Ping, payload |-> <<130>>],
   [op |-> Pong, payload |-> <<>>],
   [op |-> Close, payload |-> <<3, 233>>]}

NoResult ==
  [kind |-> "none"]

OkUnit ==
  [kind |-> "Ok"]

OkBool(sent_close) ==
  [kind |-> "Ok", sent_close |-> sent_close]

Failed(err) ==
  [kind |-> "Err", err |-> err]

\* the reader's variables other than the control channel
readerRest == <<src_frames, src, src_expect, src_pos, reader, read_buffer, header, state,
                rd_future, rd_call, rd_ret, out, out_pos>>

RelayInit ==
  /\ pc = "select"
  /\ cw_buf = <<>>
  /\ eof = FALSE
  /\ ds_reads = 0
  /\ ds_log = <<>>
  /\ ctl_out = <<>>
  /\ ctl_log = <<>>
  /\ a_result = NoResult
  /\ b_result = NoResult
  /\ sv_result = NoResult
  /\ text \in BOOLEAN
  /\ w_mask = <<>>
  /\ frame = <<>>
  /\ sink = <<>>
  /\ sink_failed = FALSE
  /\ w_started = 0
  /\ w_spins = 0
  /\ w_buf = <<>>
  /\ w_call = FALSE
  /\ w_ret = [kind |-> "none"]
  /\ w_done = <<>>

\* the relay's variables while another component is under study
RelayIdle ==
  /\ pc = "returned"
  /\ cw_buf = <<>>
  /\ eof = FALSE
  /\ ds_reads = 0
  /\ ds_log = <<>>
  /\ ctl_out = <<>>
  /\ ctl_log = <<>>
  /\ a_result = NoResult
  /\ b_result = NoResult
  /\ sv_result = NoResult

\* the select! of serve_connection is still polling both futures
Racing ==
  pc \in {"select", "write", "pong", "echo"}

\* mutant: an error of ws_future is swallowed
WsOutcome_Swallow(res) ==
  OkUnit

\* lines 716-719
WsOutcome(res) ==
  IF res.kind = "Ok" THEN OkUnit ELSE Failed(res.err)

\* mutant: the Close frame is never owed
NeedsClose_Never(sent_close) ==
  FALSE

\* mutant: the status-1000 Close frame is sent however term_future ended
NeedsClose_Always(sent_close) ==
  TRUE

\* line 721: the guard `Ok(sent_close) if !sent_close`
NeedsClose(sent_close) ==
  ~sent_close

\* line 723: status code 1000
StatusNormal == <<3, 232>>

\* mutant: a Ping is answered with an empty Pong
PongPayload_Empty(msg) ==
  <<>>

\* line 660: the Pong carries &msg
PongPayload(msg) ==
  msg

\* mutant: a Close is answered with the status-1000 payload
ClosePayload_Status(msg) ==
  StatusNormal

\* line 664: the Close carries &msg
ClosePayload(msg) ==
  msg

\* lines 658-671: the frame copy_to_websocket sends for a control message, if any
ControlReply(opcode, msg) ==
  IF opcode = Ping THEN <<[op |-> Pong, payload |-> PongPayload(msg)]>>
  ELSE IF opcode = Close THEN <<[op |-> Close, payload |-> ClosePayload(msg)]>>
  ELSE <<>>

\* lines 720-728: term_future ended with `res`
TermFinished(res) ==
  /\ b_result' = res
  /\ IF res.kind = "Ok" /\ NeedsClose(res.sent_close)
       THEN LET f == create_frame(<<>>, StatusNormal, Close, 0)
            IN IF f.ok
                 THEN /\ pc' = "close1000"
                      /\ ctl_out' = f.bytes
                      /\ UNCHANGED sv_result
                 ELSE /\ pc' = "returned"
                      /\ ctl_out' = <<>>
                      /\ sv_result' = Failed("frame")
       ELSE /\ pc' = "returned"
            /\ ctl_out' = <<>>
            /\ sv_result' = IF res.kind = "Ok" THEN OkUnit ELSE res

\* the WebSocketReader inside ws_future hands a control frame to the channel
\* (line 534)
WsReaderDelivers ==
  /\ Racing
  /\ ~w_call
  /\ Len(ctl_log) < MaxCtl
  /\ \E m \in ControlMessages :
       /\ channel' = Append(channel, m)
       /\ ctl_log' = Append(ctl_log, m)
  /\ UNCHANGED <<pc, cw_buf, eof, ds_reads, ds_log, ctl_out, a_result, b_result, sv_result>>
  /\ UNCHANGED <<sniffVars, classifierVars, parseVars, upgradeVars, builderVars, acceptVars, codecVars,
                 readerRest, writerVars>>

\* lines 716-717: ws_future ends at the upstream's end of stream
WsFutureOk ==
  /\ Racing
  /\ ~w_call
  /\ a_result' = OkUnit
  /\ sv_result' = WsOutcome(a_result')
  /\ pc' = "returned"
  /\ UNCHANGED <<cw_buf, eof, ds_reads, ds_log, ctl_out, ctl_log, b_result>>
  /\ UNCHANGED <<sniffVars, classifierVars, parseVars, upgradeVars, builderVars, acceptVars, codecVars,
                 readerVars, writerVars>>

\* lines 716, 718: ws_future ends with an error
WsFutureErr ==
  /\ Racing
  /\ ~w_call
  /\ \E err \in {"upstream read", "protocol", "downstream write"} :
       a_result' = Failed(err)
  /\ sv_result' = WsOutcome(a_result')
  /\ pc' = "returned"
  /\ UNCHANGED <<cw_buf, eof, ds_reads, ds_log, ctl_out, ctl_log, b_result>>
  /\ UNCHANGED <<sniffVars, classifierVars, parseVars, upgradeVars, builderVars, acceptVars, codecVars,
                 readerVars, writerVars>>

\* lines 675-689 after the select! produced `bytes` and the buffer is `buf`
AfterRead(bytes, buf) ==
  /\ eof' = (eof \/ bytes = 0)
  /\ cw_buf' = buf
  /\ IF Len(buf) > 0
       THEN /\ w_buf' = <<buf>>
            /\ pc' = "write"
            /\ UNCHANGED <<ctl_out, b_result, sv_result>>
       ELSE /\ UNCHANGED w_buf
            /\ IF eof'
                 THEN TermFinished(OkBool(FALSE))
                 ELSE UNCHANGED <<pc, ctl_out, b_result, sv_result>>

\* line 655: the read from downstream returns a chunk
DsRead ==
  /\ pc = "select"
  /\ Len(cw_buf) < Capacity
  /\ ds_reads < MaxDsReads
  /\ \E chunk \in DsChunks(ds_reads) :
       /\ Len(chunk) <= Capacity - Len(cw_buf)
       /\ AfterRead(Len(chunk), cw_buf \o chunk)
       /\ ds_log' = Append(ds_log, chunk)
  /\ ds_reads' = ds_reads + 1
  /\ UNCHANGED <<ctl_log, a_result>>
  /\ UNCHANGED <<text, w_mask, frame, sink, sink_failed, w_started, w_spins, w_call, w_ret, w_done>>
  /\ UNCHANGED <<sniffVars, classifierVars, parseVars, upgradeVars, builderVars, acceptVars, codecVars,
                 readerVars>>

\* line 655: the read from downstream returns 0 bytes
DsEof ==
  /\ pc = "select"
  /\ Len(cw_buf) < Capacity
  /\ AfterRead(0, cw_buf)
  /\ UNCHANGED <<ds_reads, ds_log, ctl_log, a_result>>
  /\ UNCHANGED <<text, w_mask, frame, sink, sink_failed, w_started, w_spins, w_call, w_ret, w_done>>
  /\ UNCHANGED <<sniffVars, classifierVars, parseVars, upgradeVars, builderVars, acceptVars, codecVars,
                 readerVars>>

\* line 655: the read from downstream fails, `res?` returns the error
DsError ==
  /\ pc = "select"
  /\ Len(cw_buf) < Capacity
  /\ TermFinished(Failed("downstream read"))
  /\ UNCHANGED <<cw_buf, eof, ds_reads, ds_log, ctl_log, a_result>>
  /\ UNCHANGED <<sniffVars, classifierVars, parseVars, upgradeVars, builderVars, acceptVars, codecVars,
                 readerVars, writerVars>>

\* lines 656-672: a control message is received; send_control_frame builds the
\* reply (line 212) and write_all starts on it
RecvControl ==
  /\ pc = "select"
  /\ Len(cw_buf) < Capacity
  /\ channel # <<>>
  /\ channel' = Tail(channel)
  /\ LET m == Head(channel)
         r == ControlReply(m.op, m.payload)
     IN IF r = <<>>
          THEN UNCHANGED <<pc, ctl_out, b_result, sv_result>>
          ELSE \E al \in Aligns(Len(r[1].payload)) :
                 LET f == create_frame(<<>>, r[1].payload, r[1].op, al)
                 IN IF f.ok
                      THEN /\ ctl_out' = f.bytes
                           /\ pc' = IF m.op = Ping THEN "pong" ELSE "echo"
                           /\ UNCHANGED <<b_result, sv_result>>
                      ELSE TermFinished(Failed("frame"))
  /\ UNCHANGED <<cw_buf, eof, ds_reads, ds_log, ctl_log, a_result>>
  /\ UNCHANGED <<sniffVars, classifierVars, parseVars, upgradeVars, builderVars, acceptVars, codecVars,
                 readerRest, writerVars>>

\* line 680: writer.write(&buf) polls WebSocketWriter::poll_write
RelayPollWrite ==
  /\ pc = "write"
  /\ PollWriteStep
  /\ IF w_ret'.kind = "Err"
       THEN TermFinished(Failed("frame"))
       ELSE UNCHANGED <<pc, ctl_out, b_result, sv_result>>
  /\ UNCHANGED <<cw_buf, eof, ds_reads, ds_log, ctl_log, a_result>>
  /\ UNCHANGED <<sniffVars, classifierVars, parseVars, upgradeVars, builderVars, acceptVars, codecVars,
                 readerVars>>

\* line 680: the write is Pending and the task is suspended
RelaySinkPending ==
  /\ pc = "write"
  /\ SinkPendingStep
  /\ UNCHANGED <<sniffVars, classifierVars, parseVars, upgradeVars, builderVars, acceptVars, codecVars,
                 readerVars, relayVars>>

\* mutant: the bytes written stay in the buffer
Consumed_Nothing(buf, n) ==
  buf

\* line 684: buf.consume(bytes)
Consumed(buf, n) ==
  Rest(buf, n)

\* lines 680-689: the upstream accepts bytes of the data frame; when the write
\* returns, the buffer is consumed and the loop goes round
RelaySinkAccept ==
  /\ pc = "write"
  /\ SinkAcceptStep
  /\ IF w_buf' = <<>>
       THEN /\ eof' = (eof \/ w_ret'.n = 0)
            /\ cw_buf' = Consumed(cw_buf, w_ret'.n)
            /\ IF eof' /\ cw_buf' = <<>>
                 THEN TermFinished(OkBool(FALSE))
                 ELSE /\ pc' = "select"
                      /\ UNCHANGED <<ctl_out, b_result, sv_result>>
       ELSE UNCHANGED <<pc, cw_buf, eof, ctl_out, b_result, sv_result>>
  /\ UNCHANGED <<ds_reads, ds_log, ctl_log, a_result>>
  /\ UNCHANGED <<sniffVars, classifierVars, parseVars, upgradeVars, builderVars, acceptVars, codecVars,
                 readerVars>>

\* line 680: the upstream fails during the data frame, `?` returns the error
RelaySinkError ==
  /\ pc = "write"
  /\ SinkErrorStep
  /\ TermFinished(Failed("upstream write"))
  /\ UNCHANGED <<cw_buf, eof, ds_reads, ds_log, ctl_log, a_result>>
  /\ UNCHANGED <<sniffVars, classifierVars, parseVars, upgradeVars, builderVars, acceptVars, codecVars,
                 readerVars>>

\* mutant: a single write stands for write_all
WrittenAll_OneWrite(rest) ==
  TRUE

\* line 213: write_all returns once nothing of the frame is left to write
WrittenAll(rest) ==
  rest = <<>>

\* line 213: write_all hands the upstream the rest of the control frame and the
\* upstream accepts `size` bytes of it; lines 661, 665, 724 when it is through
ControlSinkAccept ==
  /\ pc \in {"pong", "echo", "close1000"}
  /\ \E size \in 1..Len(ctl_out) :
       /\ sink' = sink \o Front(ctl_out, size)
       /\ IF ~WrittenAll(Rest(ctl_out, size))
            THEN /\ ctl_out' = Rest(ctl_out, size)
                 /\ UNCHANGED <<pc, b_result, sv_result>>
            ELSE IF pc = "pong"
              THEN /\ ctl_out' = <<>>
                   /\ pc' = "select"
                   /\ UNCHANGED <<b_result, sv_result>>
            ELSE IF pc = "echo"
              THEN TermFinished(OkBool(TRUE))
              ELSE /\ ctl_out' = <<>>
                   /\ pc' = "returned"
                   /\ sv_result' = OkUnit
                   /\ UNCHANGED b_result
  /\ UNCHANGED <<cw_buf, eof, ds_reads, ds_log, ctl_log, a_result>>
  /\ UNCHANGED <<text, w_mask, frame, sink_failed, w_started, w_spins, w_buf, w_call, w_ret, w_done>>
  /\ UNCHANGED <<sniffVars, classifierVars, parseVars, upgradeVars, builderVars, acceptVars, codecVars,
                 readerVars>>

\* line 213: the upstream fails (or takes 0 bytes, which write_all reports as
\* WriteZero) during a control frame; `?` returns the error (lines 660, 664, 723)
ControlSinkError ==
  /\ pc \in {"pong", "echo", "close1000"}
  /\ sink_failed' = TRUE
  /\ \E err \in {"upstream write", "write zero"} :
       IF pc = "close1000"
         THEN /\ pc' = "returned"
              /\ ctl_out' = <<>>
              /\ sv_result' = Failed(err)
              /\ UNCHANGED b_result
         ELSE TermFinished(Failed(err))
  /\ UNCHANGED <<cw_buf, eof, ds_reads, ds_log, ctl_log, a_result>>
  /\ UNCHANGED <<text, w_mask, frame, sink, w_started, w_spins, w_buf, w_call, w_ret, w_done>>
  /\ UNCHANGED <<sniffVars, classifierVars, parseVars, upgradeVars, builderVars, acceptVars, codecVars,
                 readerVars>>

RelayNext ==
  \/ WsReaderDelivers
  \/ WsFutureOk
  \/ WsFutureErr
  \/ DsRead
  \/ DsEof
  \/ DsError
  \/ RecvControl
  \/ RelayPollWrite
  \/ RelaySinkPending
  \/ RelaySinkAccept
  \/ RelaySinkError
  \/ ControlSinkAccept
  \/ ControlSinkError

-----------------------------------------------------------------------------
(* AcceptBuilder::accept_connections, do_accept_tls, do_accept_tls_optional *)
(* and the consumer of the channels.  A connection's record holds the state *)
(* of its task (`st`), how it ended (`end`), whether a task was spawned for *)
(* it, whether that task holds its clone of accept_counter (`token`) and    *)
(* what its TLS handshake came to (`hs`).                                   *)

MaxConns == 3

MaxCeiling == 3

\* the states in which a connection's task exists (it has not returned)
TaskStates == {"sniff", "handshake", "send_secure", "send_insecure"}

\* the connections whose task has not returned
LiveTasks ==
  {i \in 1..Len(conn) : conn[i].st \in TaskStates}

\* the connections whose task holds a clone of accept_counter
TokenHolders ==
  {i \in 1..Len(conn) : conn[i].token}

\* the connections whose sniffing or TLS handshake is under way
Handshaking ==
  {i \in 1..Len(conn) : conn[i].st \in {"sniff", "handshake"}}

\* Arc::strong_count(&accept_counter) outside an iteration of the loop: the
\* loop's own Arc (line 265) and one per task
strong_count ==
  1 + Cardinality(TokenHolders)

Receiver ==
  [open |-> TRUE, got |-> <<>>]

AcceptInit ==
  /\ max_pending_accepts \in 1..MaxCeiling
  /\ sender \in {"Secure", "SecureAndInsecure"}
  /\ accepting = TRUE
  /\ conn = <<>>
  /\ secure_channel = <<>>
  /\ insecure_channel = <<>>
  /\ secure_receiver = Receiver
  /\ insecure_receiver = Receiver

\* the accept loop's variables while another component is under study
AcceptIdle ==
  /\ max_pending_accepts = 1
  /\ sender = "Secure"
  /\ accepting = FALSE
  /\ conn = <<>>
  /\ secure_channel = <<>>
  /\ insecure_channel = <<>>
  /\ secure_receiver = Receiver
  /\ insecure_receiver = Receiver

\* lines 280-311: the iteration's clone of accept_counter is moved into the task
\* that is spawned, or dropped by `continue`
Connection(st, end, spawned) ==
  [st |-> st, end |-> end, spawned |-> spawned, token |-> spawned, hs |-> "none"]

\* mutant: a task that returns leaves its accept_counter behind
Returned_TokenKept(c, end) ==
  [c EXCEPT !.st = "over", !.end = end]

\* lines 359, 367, 400, 418, 434, 437: the task's function returns and its
\* arguments, accept_counter among them, are dropped
Returned(c, end) ==
  [c EXCEPT !.st = "over", !.end = end, !.token = FALSE]

\* mutant: the stream is sent whatever the handshake came to
AfterHandshake_AlwaysSend(c, res) ==
  [c EXCEPT !.st = "send_secure", !.hs = res]

\* lines 353-398: Ssl::new and SslStream::new return early on failure; of the
\* handshake's results only Ok(Ok(())) goes on to secure_sender.send
AfterHandshake(c, res) ==
  IF res = "ok" THEN [c EXCEPT !.st = "send_secure", !.hs = res]
  ELSE Returned([c EXCEPT !.hs = res], res)

\* mutant: no connection is ever turned away
TooManyOpen_Never(count) ==
  FALSE

\* line 283
TooManyOpen(count) ==
  count > max_pending_accepts

\* mutant: the loop awaits a connection's task itself instead of spawning it
AtAcceptPoint_AfterTask ==
  accepting /\ LiveTasks = {}

\* lines 269-278, 290, 297: the loop awaits only the accept future and the
\* shutdown future; the tasks are spawned and not awaited
AtAcceptPoint ==
  accepting

\* lines 269-311, try_setup_socket returned a socket: the iteration clones
\* accept_counter (line 281), then rejects the socket or spawns its task
AcceptUpTo(n) ==
  /\ AtAcceptPoint
  /\ Len(conn) < n
  /\ conn' = Append(conn,
                    IF TooManyOpen(strong_count + 1)
                      THEN Connection("over", "rejected", FALSE)
                      ELSE Connection(IF sender = "Secure" THEN "handshake" ELSE "sniff",
                                      "none", TRUE))
  /\ UNCHANGED <<max_pending_accepts, sender, accepting, secure_channel, insecure_channel,
                 secure_receiver, insecure_receiver>>
  /\ UNCHANGED <<sniffVars, classifierVars, parseVars, upgradeVars, builderVars, codecVars, readerVars,
                 writerVars, relayVars>>

AcceptSocket ==
  AcceptUpTo(MaxConns)

\* mutant: a socket setup error ends the loop
ContinuesAfterSetupError_Breaks ==
  FALSE

\* line 275: `continue`
ContinuesAfterSetupError ==
  TRUE

\* lines 270-276, try_setup_socket failed: logged, next iteration
SetupFails ==
  /\ AtAcceptPoint
  /\ Len(conn) < MaxConns
  /\ conn' = Append(conn, Connection("over", "setup failed", FALSE))
  /\ accepting' = ContinuesAfterSetupError
  /\ UNCHANGED <<max_pending_accepts, sender, secure_channel, insecure_channel,
                 secure_receiver, insecure_receiver>>
  /\ UNCHANGED <<sniffVars, classifierVars, parseVars, upgradeVars, builderVars, codecVars, readerVars,
                 writerVars, relayVars>>

\* mutant: the tasks still running are aborted when the loop ends
Detached_Aborted(cs) ==
  [i \in 1..Len(cs) |->
     IF cs[i].st \in TaskStates THEN Returned(cs[i], "aborted") ELSE cs[i]]

\* lines 290, 297: the JoinHandle tokio::spawn returns is dropped at once, so
\* the tasks are detached and outlive the loop
Detached(cs) ==
  cs

\* line 277: the shutdown future completes and the loop breaks
Shutdown ==
  /\ AtAcceptPoint
  /\ accepting' = FALSE
  /\ conn' = Detached(conn)
  /\ UNCHANGED <<max_pending_accepts, sender, secure_channel, insecure_channel,
                 secure_receiver, insecure_receiver>>
  /\ UNCHANGED <<sniffVars, classifierVars, parseVars, upgradeVars, builderVars, codecVars, readerVars,
                 writerVars, relayVars>>

\* lines 411-435: wait_for_client_tls_handshake returns
SniffDone ==
  /\ \E i \in 1..Len(conn) :
       /\ conn[i].st = "sniff"
       /\ \E res \in {"tls", "plain", "error"} :
            conn' = [conn EXCEPT ![i] =
                       IF res = "error" THEN Returned(@, "sniff error")
                       ELSE IF res = "plain" THEN [@ EXCEPT !.st = "send_insecure"]
                       ELSE [@ EXCEPT !.st = "handshake"]]
  /\ UNCHANGED <<max_pending_accepts, sender, accepting, secure_channel, insecure_channel,
                 secure_receiver, insecure_receiver>>
  /\ UNCHANGED <<sniffVars, classifierVars, parseVars, upgradeVars, builderVars, codecVars, readerVars,
                 writerVars, relayVars>>

\* lines 353-398: Ssl::new or SslStream::new fails, or the handshake ends under
\* its 10 s timeout
HandshakeDone ==
  /\ \E i \in 1..Len(conn) :
       /\ conn[i].st = "handshake"
       /\ \E res \in {"ok", "ssl new failed", "stream new failed", "handshake failed",
                      "handshake timeout"} :
            conn' = [conn EXCEPT ![i] = AfterHandshake(@, res)]
  /\ UNCHANGED <<max_pending_accepts, sender, accepting, secure_channel, insecure_channel,
                 secure_receiver, insecure_receiver>>
  /\ UNCHANGED <<sniffVars, classifierVars, parseVars, upgradeVars, builderVars, codecVars, readerVars,
                 writerVars, relayVars>>

\* lines 384-387, 400: secure_sender.send(..).await returns (it waits while the
\* channel is full), then accept_counter is dropped
SendSecure ==
  /\ \E i \in 1..Len(conn) :
       /\ conn[i].st = "send_secure"
       /\ IF ~secure_receiver.open
            THEN /\ conn' = [conn EXCEPT ![i] = Returned(@, "channel closed")]
                 /\ UNCHANGED secure_channel
            ELSE /\ Len(secure_channel) < max_pending_accepts
                 /\ secure_channel' = Append(secure_channel, i)
                 /\ conn' = [conn EXCEPT ![i] = Returned(@, "secure")]
  /\ UNCHANGED <<max_pending_accepts, sender, accepting, insecure_channel,
                 secure_receiver, insecure_receiver>>
  /\ UNCHANGED <<sniffVars, classifierVars, parseVars, upgradeVars, builderVars, codecVars, readerVars,
                 writerVars, relayVars>>

\* lines 424-432: insecure_sender.send(..).await returns, then the task returns
SendInsecure ==
  /\ \E i \in 1..Len(conn) :
       /\ conn[i].st = "send_insecure"
       /\ IF ~insecure_receiver.open
            THEN /\ conn' = [conn EXCEPT ![i] = Returned(@, "channel closed")]
                 /\ UNCHANGED insecure_channel
            ELSE /\ Len(insecure_channel) < max_pending_accepts
                 /\ insecure_channel' = Append(insecure_channel, i)
                 /\ conn' = [conn EXCEPT ![i] = Returned(@, "insecure")]
  /\ UNCHANGED <<max_pending_accepts, sender, accepting, secure_channel,
                 secure_receiver, insecure_receiver>>
  /\ UNCHANGED <<sniffVars, classifierVars, parseVars, upgradeVars, builderVars, codecVars, readerVars,
                 writerVars, relayVars>>

\* the consumer takes the next stream from the secure channel
ConsumerTakesSecure ==
  /\ secure_receiver.open
  /\ secure_channel # <<>>
  /\ secure_receiver' = [secure_receiver EXCEPT !.got = Append(@, Head(secure_channel))]
  /\ secure_channel' = Tail(secure_channel)
  /\ UNCHANGED <<max_pending_accepts, sender, accepting, conn, insecure_channel,
                 insecure_receiver>>
  /\ UNCHANGED <<sniffVars, classifierVars, parseVars, upgradeVars, builderVars, codecVars, readerVars,
                 writerVars, relayVars>>

\* the consumer takes the next stream from the insecure channel
ConsumerTakesInsecure ==
  /\ insecure_receiver.open
  /\ insecure_channel # <<>>
  /\ insecure_receiver' = [insecure_receiver EXCEPT !.got = Append(@, Head(insecure_channel))]
  /\ insecure_channel' = Tail(insecure_channel)
  /\ UNCHANGED <<max_pending_accepts, sender, accepting, conn, secure_channel,
                 secure_receiver>>
  /\ UNCHANGED <<sniffVars, classifierVars, parseVars, upgradeVars, builderVars, codecVars, readerVars,
                 writerVars, relayVars>>

\* the consumer drops its receivers; what is queued is dropped with them
ConsumerCloses ==
  /\ secure_receiver.open
  /\ secure_receiver' = [secure_receiver EXCEPT !.open = FALSE]
  /\ insecure_receiver' = [insecure_receiver EXCEPT !.open = FALSE]
  /\ secure_channel' = <<>>
  /\ insecure_channel' = <<>>
  /\ UNCHANGED <<max_pending_accepts, sender, accepting, conn>>
  /\ UNCHANGED <<sniffVars, classifierVars, parseVars, upgradeVars, builderVars, codecVars, readerVars,
                 writerVars, relayVars>>

AcceptNext ==
  \/ AcceptSocket
  \/ SetupFails
  \/ Shutdown
  \/ SniffDone
  \/ HandshakeDone
  \/ SendSecure
  \/ SendInsecure
  \/ ConsumerTakesSecure
  \/ ConsumerTakesInsecure
  \/ ConsumerCloses

\* The accept loop and its tasks with a consumer that takes nothing from the
\* channels, over one connection more than above.
MaxSlowConns == 4

SlowAccept ==
  AcceptUpTo(MaxSlowConns)

SlowConsumerNext ==
  \/ SlowAccept
  \/ Shutdown
  \/ SniffDone
  \/ HandshakeDone
  \/ SendSecure
  \/ SendInsecure

-----------------------------------------------------------------------------
(* contains_tls_handshake_fragment (connection.rs) *)

SLICE_LENGTH == 5

CONTENT_SIZE == 16384

\* mutant: a fragment of exactly 2^14 bytes is not accepted
contains_tls_handshake_fragment_Below(b) ==
  IF Len(b) < SLICE_LENGTH THEN FALSE
  ELSE /\ b[1] = 22
       /\ b[2] = 3
       /\ (((b[4] * 256) % 65536) + b[5]) % 65536 < CONTENT_SIZE

\* lines 498-507; the slice is indexed from 1 here, the sum is a u16
contains_tls_handshake_fragment(b) ==
  IF Len(b) < SLICE_LENGTH THEN FALSE
  ELSE /\ b[1] = 22
       /\ b[2] = 3
       /\ (((b[4] * 256) % 65536) + b[5]) % 65536 <= CONTENT_SIZE

MaxClassifyLen == 6

\* the values tried at each index of the slice
ByteChoices(k) ==
  CASE k = 1 -> {22, 23, 71}
    [] k = 2 -> {3, 2}
    [] k = 3 -> {0, 1, 255}
    [] k = 4 -> {0, 63, 64, 65, 255}
    [] k = 5 -> {0, 1, 255}
    [] OTHER -> {0, 255}

RECURSIVE Bufs(_)
Bufs(n) ==
  IF n = 0 THEN {<<>>}
  ELSE {Append(b, x) : b \in Bufs(n - 1), x \in ByteChoices(n)}

\* the start of a TLS 1.0 handshake record of 5 bytes
TlsExample == <<22, 3, 1, 0, 5, 1, 0, 0, 1, 3>>

\* "GET / HTTP/1.1\r\n"
GetExample == <<71, 69, 84, 32, 47, 32, 72, 84, 84, 80, 47, 49, 46, 49, 13, 10>>

ClassifierInputs ==
  UNION {Bufs(n) : n \in 0..MaxClassifyLen} \cup {TlsExample, GetExample}

ClassifierInit ==
  /\ cl_buf \in ClassifierInputs
  /\ cl_result = <<>>

ClassifierIdle ==
  /\ cl_buf = <<>>
  /\ cl_result = <<>>

Classify ==
  /\ cl_result = <<>>
  /\ cl_result' = <<contains_tls_handshake_fragment(cl_buf)>>
  /\ UNCHANGED cl_buf
  /\ UNCHANGED <<sniffVars, parseVars, upgradeVars, builderVars, acceptVars, codecVars, readerVars,
                 writerVars, relayVars>>

ClassifierNext ==
  Classify

-----------------------------------------------------------------------------
(* wait_for_client_tls_handshake on one connection (connection.rs).  The    *)
(* connection is the first one the listener produces; its task's position   *)
(* is conn[1].st as before, and one iteration of the loop, from the return  *)
(* of peek to yield_now, is one step.                                       *)

BYTES_BUF_SIZE == 128

ClientMessages ==
  { <<>>,
    <<22, 3>>,
    <<22, 3, 1, 0, 5, 1>>,
    <<22, 3, 3, 64, 0>>,
    <<22, 3, 3, 65, 0>>,
    <<71, 69, 84, 32, 47>> }

SniffInit ==
  /\ client \in ClientMessages
  /\ received = 0
  /\ client_eof = FALSE
  /\ peek_buf = [k \in 1..BYTES_BUF_SIZE |-> 0]
  /\ last_peek_size = 0
  /\ sock_pos = 0
  /\ consumer_read = <<>>

SniffIdle ==
  /\ client = <<>>
  /\ received = 0
  /\ client_eof = FALSE
  /\ peek_buf = [k \in 1..BYTES_BUF_SIZE |-> 0]
  /\ last_peek_size = 0
  /\ sock_pos = 0
  /\ consumer_read = <<>>

\* the listener produces the one connection
SniffAccept ==
  /\ Len(conn) = 0
  /\ AcceptSocket

\* more of the client's bytes arrive
ClientSends ==
  /\ ~client_eof
  /\ \E n \in 1..(Len(client) - received) : received' = received + n
  /\ UNCHANGED <<client, client_eof, peek_buf, last_peek_size, sock_pos, consumer_read>>
  /\ UNCHANGED <<classifierVars, parseVars, upgradeVars, builderVars, acceptVars, codecVars, readerVars,
                 writerVars, relayVars>>

\* the client closes its sending side; what it had not sent is never sent
ClientCloses ==
  /\ ~client_eof
  /\ client_eof' = TRUE
  /\ UNCHANGED <<client, received, peek_buf, last_peek_size, sock_pos, consumer_read>>
  /\ UNCHANGED <<classifierVars, parseVars, upgradeVars, builderVars, acceptVars, codecVars, readerVars,
                 writerVars, relayVars>>

\* the bytes waiting in the receive queue, as many as the buffer holds
Queued ==
  SubSeq(client, sock_pos + 1, Min(received, sock_pos + BYTES_BUF_SIZE))

\* peek copies into the front of the buffer and leaves the rest of it alone
Overwrite(b, data) ==
  [k \in 1..Len(b) |-> IF k <= Len(data) THEN data[k] ELSE b[k]]

\* mutant: the bytes looked at are taken out of the receive queue
PeekAdvance_Read(n) ==
  n

\* line 449: TcpStream::peek leaves the bytes in the receive queue
PeekAdvance(n) ==
  0

\* for comparison: only the bytes peek returned are examined
Examined_Filled(b, peek_size) ==
  SubSeq(b, 1, peek_size)

\* line 454: the whole buffer is given to contains_tls_handshake_fragment
Examined(b, peek_size) ==
  b

\* lines 448-465: peek returns (data is waiting, or the client has closed) and
\* the loop body runs
Peek ==
  /\ Len(conn) >= 1
  /\ conn[1].st = "sniff"
  /\ (received > sock_pos \/ client_eof)
  /\ LET data == Queued
         peek_size == Len(data)
         b == Overwrite(peek_buf, data)
     IN  /\ peek_buf' = b
         /\ sock_pos' = sock_pos + PeekAdvance(peek_size)
         /\ IF contains_tls_handshake_fragment(Examined(b, peek_size))
            THEN /\ conn' = [conn EXCEPT ![1].st = "handshake"]
                 /\ UNCHANGED last_peek_size
            ELSE IF peek_size = last_peek_size
            THEN /\ conn' = [conn EXCEPT ![1].st = "send_insecure"]
                 /\ UNCHANGED last_peek_size
            ELSE /\ last_peek_size' = peek_size
                 /\ UNCHANGED conn
  /\ UNCHANGED <<client, received, client_eof, consumer_read>>
  /\ UNCHANGED <<max_pending_accepts, sender, accepting, secure_channel, insecure_channel,
                 secure_receiver, insecure_receiver>>
  /\ UNCHANGED <<classifierVars, parseVars, upgradeVars, builderVars, codecVars, readerVars, writerVars,
                 relayVars>>

\* lines 451, 418-421: peek fails and the task returns
PeekFails ==
  /\ Len(conn) >= 1
  /\ conn[1].st = "sniff"
  /\ conn' = [conn EXCEPT ![1] = Returned(@, "sniff error")]
  /\ UNCHANGED sniffVars
  /\ UNCHANGED <<max_pending_accepts, sender, accepting, secure_channel, insecure_channel,
                 secure_receiver, insecure_receiver>>
  /\ UNCHANGED <<classifierVars, parseVars, upgradeVars, builderVars, codecVars, readerVars, writerVars,
                 relayVars>>

\* mutant: the loop is not bounded by a timeout
TimedOut_KeepsWaiting ==
  "sniff"

\* lines 469-471: timeout(..).await.unwrap_or(Ok(false)), and Ok(false) sends the
\* socket as plaintext (lines 427-433)
TimedOut ==
  "send_insecure"

\* lines 469-471: the 1000 ms pass before the loop decides; the answer is Ok(false)
SniffTimeout ==
  /\ Len(conn) >= 1
  /\ conn[1].st = "sniff"
  /\ conn' = [conn EXCEPT ![1].st = TimedOut]
  /\ UNCHANGED sniffVars
  /\ UNCHANGED <<max_pending_accepts, sender, accepting, secure_channel, insecure_channel,
                 secure_receiver, insecure_receiver>>
  /\ UNCHANGED <<classifierVars, parseVars, upgradeVars, builderVars, codecVars, readerVars, writerVars,
                 relayVars>>

\* the consumer reads from the plaintext stream it was given
ConsumerReads ==
  /\ \E k \in 1..Len(insecure_receiver.got) : insecure_receiver.got[k] = 1
  /\ \E n \in 1..(received - sock_pos) :
       /\ consumer_read' = consumer_read \o SubSeq(client, sock_pos + 1, sock_pos + n)
       /\ sock_pos' = sock_pos + n
  /\ UNCHANGED <<client, received, client_eof, peek_buf, last_peek_size>>
  /\ UNCHANGED <<classifierVars, parseVars, upgradeVars, builderVars, acceptVars, codecVars, readerVars,
                 writerVars, relayVars>>

SniffNext ==
  \/ SniffAccept
  \/ ClientSends
  \/ ClientCloses
  \/ Peek
  \/ PeekFails
  \/ SniffTimeout
  \/ HandshakeDone
  \/ SendSecure
  \/ SendInsecure
  \/ ConsumerTakesSecure
  \/ ConsumerTakesInsecure
  \/ ConsumerReads


-----------------------------------------------------------------------------
(* FrameHeader::try_from_bytes called as its documentation describes: on    *)
(* the bytes at hand, and again with as many more as it asked for; and      *)
(* create_frame asked for a frame with the same opcode and length.          *)

\* first bytes: every opcode with and without fin, unknown opcodes, reserved bits
ParseFirstBytes ==
  {128, 129, 130, 136, 137, 138, 0, 1, 2, 8, 9, 10, 131, 139, 143, 145, 161, 193, 201}

ParseLengths == {0, 5, 125, 126, 300}

ParseMasks == {<<>>, <<1, 2, 3, 4>>}

\* a payload length can be sent in a longer form than it needs
ParseInputs ==
  {[first |-> f, n |-> n, form |-> fm, mask |-> m] :
     f \in ParseFirstBytes, n \in ParseLengths, fm \in {"short", "u16", "u64"}, m \in ParseMasks}
  \ {in \in [first : ParseFirstBytes, n : ParseLengths, form : {"short"}, mask : ParseMasks] :
       in.n > 125}

\* bytes of the extended length field
ExtLen(in) ==
  CASE in.form = "short" -> 0 [] in.form = "u16" -> 2 [] in.form = "u64" -> 8

\* bytes of the whole header
HeaderLen(in) ==
  2 + ExtLen(in) + Len(in.mask)

\* the header on the wire, followed by one byte of what comes after it
HeaderBytes(in) ==
  LET mask_bit == IF in.mask # <<>> THEN 128 ELSE 0
  IN <<in.first>>
     \o (CASE in.form = "short" -> <<mask_bit + in.n>>
           [] in.form = "u16" -> <<mask_bit + 126>> \o BeBytes(in.n, 2)
           [] in.form = "u64" -> <<mask_bit + 127>> \o BeBytes(in.n, 8))
     \o in.mask \o <<170>>

ParseInit ==
  /\ p_in \in ParseInputs
  /\ p_len \in 0..Len(HeaderBytes(p_in))
  /\ p_result = <<>>
  /\ p_hist = <<>>
  /\ p_created = <<>>

ParseIdle ==
  /\ p_in = [first |-> 129, n |-> 0, form |-> "short", mask |-> <<>>]
  /\ p_len = 0
  /\ p_result = <<>>
  /\ p_hist = <<>>
  /\ p_created = <<>>

\* try_from_bytes on the bytes at hand
TryParse ==
  /\ p_result = <<>>
  /\ p_result' = <<try_from_bytes(SubSeq(HeaderBytes(p_in), 1, p_len))>>
  /\ UNCHANGED <<p_in, p_len, p_hist, p_created>>
  /\ UNCHANGED <<sniffVars, classifierVars, upgradeVars, builderVars, acceptVars, codecVars, readerVars,
                 writerVars, relayVars>>

\* Ok(Err(n)): the caller gets exactly n more bytes of the stream and asks again
Extend ==
  /\ p_result # <<>>
  /\ p_result[1].kind = "Need"
  /\ p_len + p_result[1].n <= Len(HeaderBytes(p_in))
  /\ p_len' = p_len + p_result[1].n
  /\ p_hist' = Append(p_hist, p_result[1].n)
  /\ p_result' = <<>>
  /\ UNCHANGED <<p_in, p_created>>
  /\ UNCHANGED <<sniffVars, classifierVars, upgradeVars, builderVars, acceptVars, codecVars, readerVars,
                 writerVars, relayVars>>

\* create_frame for the opcode of the first byte and a payload of the same length
CreateSame ==
  /\ p_created = <<>>
  /\ OpCodeOf(p_in.first) \in OpCodes
  /\ p_created' = <<create_frame(p_in.mask, Pattern(p_in.n), OpCodeOf(p_in.first), 0)>>
  /\ UNCHANGED <<p_in, p_len, p_result, p_hist>>
  /\ UNCHANGED <<sniffVars, classifierVars, upgradeVars, builderVars, acceptVars, codecVars, readerVars,
                 writerVars, relayVars>>

ParseNext ==
  \/ TryParse
  \/ Extend
  \/ CreateSame

-----------------------------------------------------------------------------
(* WebSocket::new.  A header value is the sequence of its bytes.            *)

UPGRADE == "upgrade"
SEC_WEBSOCKET_VERSION == "sec-websocket-version"
SEC_WEBSOCKET_KEY == "sec-websocket-key"
SEC_WEBSOCKET_PROTOCOL == "sec-websocket-protocol"

HeaderNames == {UPGRADE, SEC_WEBSOCKET_VERSION, SEC_WEBSOCKET_KEY, SEC_WEBSOCKET_PROTOCOL}

MAGIC_WEBSOCKET_GUID == "258EAFA5-E914-47DA-95CA-C5AB0DC85B11"

\* "websocket"
StrWebsocket == <<119, 101, 98, 115, 111, 99, 107, 101, 116>>

\* "WebSocket"
StrWebSocketCaps == <<87, 101, 98, 83, 111, 99, 107, 101, 116>>

\* "Upgrade"
StrUpgrade == <<85, 112, 103, 114, 97, 100, 101>>

\* "13"
Str13 == <<49, 51>>

\* "8"
Str8 == <<56>>

\* "text"
StrText == <<116, 101, 120, 116>>

\* "binary"
StrBinary == <<98, 105, 110, 97, 114, 121>>

\* "base64"
StrBase64 == <<98, 97, 115, 101, 54, 52>>

\* "dGhlIHNhbXBsZQ=="
StrKey == <<100, 71, 104, 108, 73, 72, 78, 104, 98, 88, 66, 115, 90, 81, 61, 61>>

\* a value with a byte above 0x7f, which a HeaderValue may hold
Opaque == <<116, 255>>

\* HeaderValue::to_str: the value as &str if every byte is visible ASCII or a tab
to_str(v) ==
  IF \A i \in 1..Len(v) : v[i] = 9 \/ (v[i] >= 32 /\ v[i] <= 126)
    THEN [ok |-> TRUE, s |-> v]
    ELSE [ok |-> FALSE]

\* line 629: base64::encode(sha1(key ++ MAGIC_WEBSOCKET_GUID)), kept as its inputs
ResponseKey(key) ==
  [base64_sha1_of |-> key, followed_by |-> MAGIC_WEBSOCKET_GUID]

Failure(msg) ==
  [ok |-> FALSE, err |-> msg]

\* mutant: any version is taken
VersionMatches_Any(version) ==
  TRUE

\* line 620: version != "13"
VersionMatches(version) ==
  version = Str13

\* mutant: binary framing whatever was asked for
IsText_Never(ws_proto) ==
  FALSE

\* line 614: ws_proto == "text"
IsText(ws_proto) ==
  ws_proto = StrText

\* lines 593-640
WebSocket_new(headers) ==
  IF headers[UPGRADE] = <<>> THEN Failure("missing Upgrade header")
  ELSE IF ~to_str(headers[UPGRADE][1]).ok THEN Failure("to_str")
  ELSE IF headers[SEC_WEBSOCKET_VERSION] = <<>> THEN Failure("missing websocket version")
  ELSE IF ~to_str(headers[SEC_WEBSOCKET_VERSION][1]).ok THEN Failure("to_str")
  ELSE IF headers[SEC_WEBSOCKET_KEY] = <<>> THEN Failure("missing websocket key")
  ELSE IF ~to_str(headers[SEC_WEBSOCKET_KEY][1]).ok THEN Failure("to_str")
  ELSE IF headers[SEC_WEBSOCKET_PROTOCOL] = <<>> THEN Failure("missing websocket key")
  ELSE IF ~to_str(headers[SEC_WEBSOCKET_PROTOCOL][1]).ok THEN Failure("to_str")
  ELSE
    LET protocols == to_str(headers[UPGRADE][1]).s
        version == to_str(headers[SEC_WEBSOCKET_VERSION][1]).s
        key == to_str(headers[SEC_WEBSOCKET_KEY][1]).s
        ws_proto == to_str(headers[SEC_WEBSOCKET_PROTOCOL][1]).s
    IN IF protocols # StrWebsocket THEN Failure("invalid protocol name")
       ELSE IF ~VersionMatches(version) THEN Failure("invalid websocket version")
       ELSE [ok |-> TRUE,
             ws |-> [text |-> IsText(ws_proto)],
             response |-> [status |-> 101,
                           upgrade |-> StrWebsocket,
                           connection |-> StrUpgrade,
                           sec_websocket_accept |-> ResponseKey(key),
                           sec_websocket_protocol |-> ws_proto]]

Requests ==
  {[h \in HeaderNames |->
      CASE h = UPGRADE -> u
        [] h = SEC_WEBSOCKET_VERSION -> v
        [] h = SEC_WEBSOCKET_KEY -> k
        [] h = SEC_WEBSOCKET_PROTOCOL -> pr] :
     u \in {<<>>, <<StrWebsocket>>, <<StrWebSocketCaps>>, <<Opaque>>},
     v \in {<<>>, <<Str13>>, <<Str8>>, <<Opaque>>},
     k \in {<<>>, <<StrKey>>, <<Opaque>>},
     pr \in {<<>>, <<StrText>>, <<StrBinary>>, <<StrBase64>>, <<Opaque>>}}

UpgradeInit ==
  /\ req_headers \in Requests
  /\ ws_new = <<>>

UpgradeIdle ==
  /\ req_headers = [h \in HeaderNames |-> <<>>]
  /\ ws_new = <<>>

Upgrade ==
  /\ ws_new = <<>>
  /\ ws_new' = <<WebSocket_new(req_headers)>>
  /\ UNCHANGED req_headers
  /\ UNCHANGED <<sniffVars, classifierVars, parseVars, builderVars, acceptVars, codecVars, readerVars,
                 writerVars, relayVars>>

UpgradeNext ==
  Upgrade

\* serve_connection runs on the WebSocket that new returned for the request,
\* and hands its `text` to the writer (line 709)
Promoted ==
  /\ req_headers \in {r \in Requests : WebSocket_new(r).ok}
  /\ ws_new = <<WebSocket_new(req_headers)>>
  /\ text = ws_new[1].ws.text

-----------------------------------------------------------------------------
(* TlsAcceptorBuilder.  A private key is a name; a certificate is a record  *)
(* naming the key it was issued for; a PEM file is known by its path.       *)

MaxCalls == 3

PrivateKeys == {"key1", "key2"}

Certificates == {[of |-> k] : k \in PrivateKeys}

PemPaths == {[key |-> "a.key", cert |-> "a.pem"], [key |-> "b.key", cert |-> "b.pem"]}

CipherStrings == {"TLS_AES_256_GCM_SHA384"}

\* enum Tls
KeyCert(key, cert) ==
  [kind |-> "KeyCert", key |-> key, cert |-> cert]

FilesPem(key, cert) ==
  [kind |-> "FilesPem", key |-> key, cert |-> cert]

\* TlsAcceptorBuilder::new: Self::default()
BuilderInit ==
  /\ tls = <<>>
  /\ cipher_suites = <<>>
  /\ cipher_list = <<>>
  /\ builder_calls = <<>>
  /\ built = <<>>

BuilderIdle ==
  BuilderInit

\* a builder method may be called: build has not consumed the builder
Callable ==
  /\ built = <<>>
  /\ Len(builder_calls) < MaxCalls

\* TlsAcceptorBuilder::certificate
Certificate ==
  /\ Callable
  /\ \E key \in PrivateKeys, cert \in Certificates :
       /\ tls' = <<KeyCert(key, cert)>>
       /\ builder_calls' = Append(builder_calls, [op |-> "certificate", key |-> key, cert |-> cert])
  /\ UNCHANGED <<cipher_suites, cipher_list, built>>
  /\ UNCHANGED <<sniffVars, classifierVars, parseVars, upgradeVars, acceptVars, codecVars,
                 readerVars, writerVars, relayVars>>

\* TlsAcceptorBuilder::certificate_paths_pem
CertificatePathsPem ==
  /\ Callable
  /\ \E paths \in PemPaths :
       /\ tls' = <<FilesPem(paths.key, paths.cert)>>
       /\ builder_calls' = Append(builder_calls, [op |-> "certificate_paths_pem",
                                                  key |-> paths.key, cert |-> paths.cert])
  /\ UNCHANGED <<cipher_suites, cipher_list, built>>
  /\ UNCHANGED <<sniffVars, classifierVars, parseVars, upgradeVars, acceptVars, codecVars,
                 readerVars, writerVars, relayVars>>

\* TlsAcceptorBuilder::cipher_suites
CipherSuites ==
  /\ Callable
  /\ \E suites \in CipherStrings :
       /\ cipher_suites' = <<suites>>
       /\ builder_calls' = Append(builder_calls, [op |-> "cipher_suites", arg |-> suites])
  /\ UNCHANGED <<tls, cipher_list, built>>
  /\ UNCHANGED <<sniffVars, classifierVars, parseVars, upgradeVars, acceptVars, codecVars,
                 readerVars, writerVars, relayVars>>

\* TlsAcceptorBuilder::cipher_list
CipherList ==
  /\ Callable
  /\ \E list \in CipherStrings :
       /\ cipher_list' = <<list>>
       /\ builder_calls' = Append(builder_calls, [op |-> "cipher_list", arg |-> list])
  /\ UNCHANGED <<tls, cipher_suites, built>>
  /\ UNCHANGED <<sniffVars, classifierVars, parseVars, upgradeVars, acceptVars, codecVars,
                 readerVars, writerVars, relayVars>>

\* lines 94-128: the certificate generated when nothing was configured
SelfSigned ==
  [kind |-> "SelfSigned", curve |-> "X9_62_PRIME256V1", digest |-> "sha256",
   not_after_days |-> 365, issuer_cn |-> "localhost"]

\* line 77: match self.tls
Chosen(t) ==
  IF t = <<>> THEN SelfSigned ELSE t[1]

\* how build can end with a source: the files may be unreadable (Err); a key
\* that does not belong to the certificate fails check_private_key().unwrap()
BuildOutcomes(source) ==
  CASE source.kind = "KeyCert" -> IF source.cert.of = source.key THEN {"Ok"} ELSE {"panic"}
    [] source.kind = "FilesPem" -> {"Ok", "Err", "panic"}
    [] OTHER -> {"Ok"}

\* TlsAcceptorBuilder::build
Build ==
  /\ built = <<>>
  /\ \E outcome \in BuildOutcomes(Chosen(tls)) :
       built' = <<[source |-> Chosen(tls), outcome |-> outcome]>>
  /\ UNCHANGED <<tls, cipher_suites, cipher_list, builder_calls>>
  /\ UNCHANGED <<sniffVars, classifierVars, parseVars, upgradeVars, acceptVars, codecVars,
                 readerVars, writerVars, relayVars>>

BuilderNext ==
  \/ Certificate
  \/ CertificatePathsPem
  \/ CipherSuites
  \/ CipherList
  \/ Build

-----------------------------------------------------------------------------
(* Specifications: one per component, the other components' variables held *)
(* at their idle values.                                                   *)

CodecSpecInit ==
  CodecInit /\ ReaderIdle /\ WriterIdle /\ RelayIdle /\ AcceptIdle /\ SniffIdle /\ ClassifierIdle
    /\ ParseIdle /\ UpgradeIdle /\ BuilderIdle

CodecSpec ==
  CodecSpecInit /\ [][CodecNext]_vars

ReaderSpecInit ==
  ReaderInit /\ CodecIdle /\ WriterIdle /\ RelayIdle /\ AcceptIdle /\ SniffIdle /\ ClassifierIdle
    /\ ParseIdle /\ UpgradeIdle /\ BuilderIdle

ReaderSpec ==
  ReaderSpecInit /\ [][ReaderNext]_vars

WriterSpecInit ==
  WriterInit /\ CodecIdle /\ ReaderIdle /\ RelayIdle /\ AcceptIdle /\ SniffIdle /\ ClassifierIdle
    /\ ParseIdle /\ UpgradeIdle /\ BuilderIdle

WriterSpec ==
  WriterSpecInit /\ [][WriterNext]_vars

RelaySpecInit ==
  RelayInit /\ Promoted /\ CodecIdle /\ ReaderIdle /\ AcceptIdle /\ SniffIdle /\ ClassifierIdle
    /\ ParseIdle /\ BuilderIdle

RelaySpec ==
  RelaySpecInit /\ [][RelayNext]_vars

\* the suspended task is polled again, the select! of copy_to_websocket does
\* not pass a waiting control message over for ever, and the upstream keeps
\* accepting bytes
RelayFairness ==
  /\ WF_vars(RelayPollWrite)
  /\ SF_vars(RelaySinkAccept)
  /\ SF_vars(RecvControl)
  /\ WF_vars(ControlSinkAccept)

\* the two protocols the relay's clients ask for
RelayFairSpecInit ==
  RelaySpecInit /\ req_headers[SEC_WEBSOCKET_PROTOCOL][1] \in {StrText, StrBinary}

RelayFairSpec ==
  RelayFairSpecInit /\ [][RelayNext]_vars /\ RelayFairness

AcceptSpecInit ==
  AcceptInit /\ CodecIdle /\ ReaderIdle /\ WriterIdle /\ RelayIdle /\ SniffIdle /\ ClassifierIdle
    /\ ParseIdle /\ UpgradeIdle /\ BuilderIdle

AcceptSpec ==
  AcceptSpecInit /\ [][AcceptNext]_vars

SlowConsumerSpecInit ==
  AcceptInit /\ CodecIdle /\ ReaderIdle /\ WriterIdle /\ RelayIdle /\ SniffIdle /\ ClassifierIdle
    /\ ParseIdle /\ UpgradeIdle /\ BuilderIdle

SlowConsumerSpec ==
  SlowConsumerSpecInit /\ [][SlowConsumerNext]_vars

SniffSpecInit ==
  AcceptInit /\ SniffInit /\ ClassifierIdle /\ CodecIdle /\ ReaderIdle /\ WriterIdle /\ RelayIdle
    /\ ParseIdle /\ UpgradeIdle /\ BuilderIdle

SniffSpec ==
  SniffSpecInit /\ [][SniffNext]_vars

\* the 1000 ms of the timeout pass
SniffFairness ==
  WF_vars(SniffTimeout)

SniffFairSpecInit ==
  SniffSpecInit

SniffFairSpec ==
  SniffFairSpecInit /\ [][SniffNext]_vars /\ SniffFairness

ZeroSinkSpecInit ==
  WriterSpecInit

ZeroSinkSpec ==
  ZeroSinkSpecInit /\ [][ZeroSinkNext]_vars

ClassifierSpecInit ==
  ClassifierInit /\ SniffIdle /\ AcceptIdle /\ CodecIdle /\ ReaderIdle /\ WriterIdle /\ RelayIdle
    /\ ParseIdle /\ UpgradeIdle /\ BuilderIdle

ClassifierSpec ==
  ClassifierSpecInit /\ [][ClassifierNext]_vars

ParseSpecInit ==
  ParseInit /\ UpgradeIdle /\ BuilderIdle /\ ClassifierIdle /\ SniffIdle /\ AcceptIdle /\ CodecIdle /\ ReaderIdle
    /\ WriterIdle /\ RelayIdle

ParseSpec ==
  ParseSpecInit /\ [][ParseNext]_vars

UpgradeSpecInit ==
  UpgradeInit /\ BuilderIdle /\ ParseIdle /\ ClassifierIdle /\ SniffIdle /\ AcceptIdle /\ CodecIdle /\ ReaderIdle
    /\ WriterIdle /\ RelayIdle

UpgradeSpec ==
  UpgradeSpecInit /\ [][UpgradeNext]_vars

MaskSpecInit ==
  MaskInit /\ UpgradeIdle /\ BuilderIdle /\ ParseIdle /\ ClassifierIdle /\ SniffIdle /\ AcceptIdle /\ ReaderIdle
    /\ WriterIdle /\ RelayIdle

MaskSpec ==
  MaskSpecInit /\ [][MaskNext]_vars

MalformedSpecInit ==
  MalformedInit /\ CodecIdle /\ WriterIdle /\ RelayIdle /\ AcceptIdle /\ SniffIdle /\ ClassifierIdle
    /\ ParseIdle /\ UpgradeIdle /\ BuilderIdle

MalformedSpec ==
  MalformedSpecInit /\ [][ReaderNext]_vars

BuilderSpecInit ==
  BuilderInit /\ UpgradeIdle /\ ParseIdle /\ ClassifierIdle /\ SniffIdle /\ AcceptIdle
    /\ CodecIdle /\ ReaderIdle /\ WriterIdle /\ RelayIdle

BuilderSpec ==
  BuilderSpecInit /\ [][BuilderNext]_vars

-----------------------------------------------------------------------------
(* Claims *)

IsPrefix(p, q) ==
  /\ Len(p) <= Len(q)
  /\ \A i \in 1..Len(p) : p[i] = q[i]

EndOfStream ==
  rd_ret = Ret("Ok", 0)

C2_UnmaskAcrossChunks ==
  IsPrefix(out, src_expect.bytes)

\* C3: whenever create_frame succeeds, try_from_bytes on the frame returns a
\* header with fin set, the frame type, mask and payload length that were given
\* and header_len + payload_len equal to the frame's length, and unmasking the
\* bytes after header_len with the header's mask gives back the payload.
C3_FrameRoundTrip ==
  /\ parsed # <<>> =>
       /\ parsed[1].kind = "Header"
       /\ parsed[1].fin
       /\ parsed[1].frametype = cf_frametype
       /\ parsed[1].mask = cf_mask
       /\ parsed[1].payload_len = Len(cf_data)
       /\ parsed[1].header_len + parsed[1].payload_len = Len(cf_result[1].bytes)
  /\ extracted # <<>> => extracted[1] = cf_data

\* a masked payload of 126 bytes, the first size with an extended length, has
\* been framed, parsed and unmasked
C3_Witness ==
  /\ extracted # <<>>
  /\ Len(cf_data) = 126
  /\ cf_mask = <<1, 2, 3, 4>>

RECURSIVE EncodeWrites(_)
\* the frames of a sequence of written buffers, concatenated
EncodeWrites(bufs) ==
  IF bufs = <<>> THEN <<>>
  ELSE create_frame(w_mask, Head(bufs), FrameType(text), 0).bytes \o EncodeWrites(Tail(bufs))

\* C4: while the sink reports no error, what reached the sink is the frame of
\* every completed write followed by the first `pos` bytes of the frame of the
\* write in progress; a write reports the length of its buffer, and when it has
\* reported no frame is in flight and its whole frame has reached the sink.
C4_OneWriteOneFrame ==
  ~sink_failed =>
    /\ sink = EncodeWrites(w_done)
              \o (IF frame = <<>> THEN <<>>
                  ELSE SubSeq(EncodeWrites(w_buf), 1, frame[1].pos))
    /\ frame # <<>> => w_buf # <<>> /\ frame[1].pos < Len(EncodeWrites(w_buf))
    /\ (w_ret.kind = "Ok" /\ w_buf = <<>>) =>
          /\ frame = <<>>
          /\ w_ret.n = Len(w_done[Len(w_done)])

\* two writes completed, the second one of two bytes, with a mask configured
C4_Witness ==
  /\ ~sink_failed
  /\ Len(w_done) = 2
  /\ w_buf = <<>>
  /\ w_ret = [kind |-> "Ok", n |-> 2]
  /\ w_mask # <<>>

RECURSIVE ParseFrames(_)
\* the complete frames at the start of a byte string, as [op, payload]
ParseFrames(bytes) ==
  LET h == try_from_bytes(bytes)
  IN IF h.kind # "Header" THEN <<>>
     ELSE IF Len(bytes) < h.header_len + h.payload_len THEN <<>>
     ELSE <<[op |-> h.frametype,
             payload |-> mask_bytes(h.mask, SubSeq(bytes, h.header_len + 1,
                                                   h.header_len + h.payload_len), 0)]>>
          \o ParseFrames(SubSeq(bytes, h.header_len + h.payload_len + 1, Len(bytes)))

IsDataFrame(f) == f.op \in DataOps

IsPing(f) == f.op = Ping

IsPong(f) == f.op = Pong

IsClose(f) == f.op = Close

\* the frames the upstream has received in full
Upstream ==
  ParseFrames(sink)

\* the data frames of the logical writes that completed
WrittenData ==
  [i \in 1..Len(w_done) |-> [op |-> FrameType(text), payload |-> w_done[i]]]

\* the control messages copy_to_websocket has taken from the channel
Taken ==
  SubSeq(ctl_log, 1, Len(ctl_log) - Len(channel))

\* the upstream received whole frames only
NoTornFrame ==
  Len(EncodeWrites(w_done)) + Len(SelectSeq(Upstream, IsPong)) * 2
    + Len(Concat([i \in 1..Len(Upstream) |-> IF IsDataFrame(Upstream[i]) THEN <<>>
                                             ELSE Upstream[i].payload]))
    + Len(SelectSeq(Upstream, IsClose)) * 2
  = Len(sink)

\* C5: once copy_to_websocket has seen the downstream's end of stream it has
\* ended with "no close sent"; serve_connection has not returned Ok before the
\* upstream holds, in whole frames, every data frame written and then, as the
\* last frame and the only Close frame, Close with payload [0x03,0xE8]; it
\* returns an error only if the upstream refused that frame.
C5_CloseOnDownstreamEof ==
  /\ eof => b_result = OkBool(FALSE) /\ pc \in {"close1000", "returned"}
  /\ (eof /\ pc = "close1000") => sv_result = NoResult
  /\ (eof /\ pc = "returned") =>
       IF sink_failed THEN sv_result.kind = "Err"
       ELSE /\ sv_result = OkUnit
            /\ NoTornFrame
            /\ Upstream # <<>>
            /\ Upstream[Len(Upstream)] = [op |-> Close, payload |-> <<3, 232>>]
            /\ Len(SelectSeq(Upstream, IsClose)) = 1
            /\ SelectSeq(Upstream, IsDataFrame) = WrittenData

\* the downstream ended after a chunk was relayed and a Ping answered, and
\* serve_connection returned Ok
C5_Witness ==
  /\ eof
  /\ sv_result = OkUnit
  /\ Len(w_done) >= 1
  /\ Len(SelectSeq(Upstream, IsPong)) >= 1

\* C6 (safety): the Pong frames the upstream has received carry, in order, the
\* payloads of the Pings taken from the channel, one Pong per Ping (all of them
\* whenever the loop is back at its select! or writing data); every frame the
\* upstream has received is a data frame written, such a Pong, or a Close frame,
\* so a message that is neither Ping nor Close causes no frame.
C6_PongPerPing ==
  LET pongs == SelectSeq(Upstream, IsPong)
      pings == SelectSeq(Taken, IsPing)
  IN /\ Len(pongs) <= Len(pings)
     /\ \A i \in 1..Len(pongs) : pongs[i].payload = pings[i].payload
     /\ pc \in {"select", "write"} => Len(pongs) = Len(pings)
     /\ pc = "pong" => Len(pongs) = Len(pings) - 1
     /\ Len(Upstream) = Len(SelectSeq(Upstream, IsDataFrame)) + Len(pongs)
                        + Len(SelectSeq(Upstream, IsClose))
     /\ IsPrefix(SelectSeq(Upstream, IsDataFrame), WrittenData \o
                 [i \in 1..Len(w_buf) |-> [op |-> FrameType(text), payload |-> w_buf[i]]])

\* the relay has ended, or is about to with the status-1000 Close frame
RelayEnded ==
  pc \in {"close1000", "returned"}

\* C6: C6_PongPerPing always holds, and while the upstream keeps accepting bytes
\* the n-th Ping delivered on the channel leads to the n-th Pong frame at the
\* upstream unless the relay ends.
C6_PingAnswered ==
  /\ []C6_PongPerPing
  /\ \A n \in 1..MaxCtl :
       (Len(SelectSeq(ctl_log, IsPing)) >= n)
         ~> (Len(SelectSeq(Upstream, IsPong)) >= n \/ RelayEnded)

\* a Pong message was ignored, then a Ping with a payload was answered after a
\* chunk had been relayed, and the loop is back at its select!
C6_Witness ==
  /\ ctl_log = <<[op |-> Pong, payload |-> <<>>], [op |-> Ping, payload |-> <<130>>]>>
  /\ channel = <<>>
  /\ SelectSeq(Upstream, IsPong) = <<[op |-> Pong, payload |-> <<130>>]>>
  /\ Len(w_done) >= 1
  /\ pc = "select"

\* C7: while the Close taken from the channel is being answered, what the
\* upstream has and is still owed ends with a Close frame carrying the payload
\* received; when copy_to_websocket has ended with "close already sent",
\* serve_connection has returned Ok and the upstream holds whole frames, the
\* last of them that Close frame and no other Close frame.
C7_CloseEcho ==
  LET closes == SelectSeq(Taken, IsClose)
      echoed == ParseFrames(sink \o ctl_out)
  IN /\ pc = "echo" =>
          /\ Len(closes) = 1
          /\ echoed # <<>>
          /\ echoed[Len(echoed)] = [op |-> Close, payload |-> closes[1].payload]
          /\ Len(SelectSeq(echoed, IsClose)) = 1
     /\ (b_result.kind = "Ok" /\ b_result.sent_close) =>
          /\ sv_result = OkUnit
          /\ pc = "returned"
          /\ Len(closes) = 1
          /\ NoTornFrame
          /\ Upstream # <<>>
          /\ Upstream[Len(Upstream)] = [op |-> Close, payload |-> closes[1].payload]
          /\ Len(SelectSeq(Upstream, IsClose)) = 1

\* a Close with a status payload was echoed after a chunk had been relayed
C7_Witness ==
  /\ b_result = OkBool(TRUE)
  /\ sv_result = OkUnit
  /\ [op |-> Close, payload |-> <<3, 233>>] \in {Taken[i] : i \in 1..Len(Taken)}
  /\ Len(w_done) >= 1

\* C8: when ws_future or term_future has ended with an error, serve_connection
\* has returned that error and the upstream has received no Close frame.
C8_ErrorPropagation ==
  /\ a_result.kind = "Err" =>
       /\ sv_result = a_result
       /\ pc = "returned"
       /\ SelectSeq(Upstream, IsClose) = <<>>
  /\ b_result.kind = "Err" =>
       /\ sv_result = b_result
       /\ pc = "returned"
       /\ SelectSeq(Upstream, IsClose) = <<>>
  /\ sv_result.kind = "Err" =>
       \/ a_result = sv_result /\ b_result = NoResult
       \/ b_result = sv_result /\ a_result = NoResult
       \/ b_result = OkBool(FALSE) /\ a_result = NoResult /\ sink_failed

\* the upstream failed in the middle of a data frame and serve_connection
\* returned that error
C8_Witness ==
  /\ b_result = Failed("upstream write")
  /\ sv_result = Failed("upstream write")
  /\ frame # <<>>
  /\ sink # <<>>

\* the connections that were ever handed to a channel or to the consumer
Published ==
  {secure_channel[k] : k \in 1..Len(secure_channel)}
    \cup {insecure_channel[k] : k \in 1..Len(insecure_channel)}
    \cup {secure_receiver.got[k] : k \in 1..Len(secure_receiver.got)}
    \cup {insecure_receiver.got[k] : k \in 1..Len(insecure_receiver.got)}

\* a raw connection has come out of try_setup_socket in this step
Arrives ==
  /\ Len(conn') = Len(conn) + 1
  /\ conn'[Len(conn')].end # "setup failed"

\* the connection that arrives in this step is rejected
Rejected ==
  conn'[Len(conn')].end = "rejected"

\* C9 (states): the tasks holding an accept token, and so the handshakes in
\* flight, never number more than max_pending_accepts; a rejected connection has
\* no task, runs no sniffing or handshake, waits in no queue and is never on a
\* channel or with the consumer.
C9_WithinCeiling ==
  /\ Cardinality(TokenHolders) <= max_pending_accepts
  /\ Cardinality(Handshaking) <= max_pending_accepts
  /\ \A i \in 1..Len(conn) :
       conn[i].end = "rejected" =>
         /\ ~conn[i].spawned
         /\ conn[i].st = "over"
         /\ i \notin TokenHolders
         /\ i \notin Published

C10_ShedOnlyAtCeiling ==
  [][(Arrives /\ Rejected) => Cardinality(TokenHolders) >= max_pending_accepts]_vars

Stalled(i) ==
  \/ /\ conn[i].st = "send_secure"
     /\ secure_receiver.open
     /\ Len(secure_channel) >= max_pending_accepts
  \/ /\ conn[i].st = "send_insecure"
     /\ insecure_receiver.open
     /\ Len(insecure_channel) >= max_pending_accepts

\* C12: a task whose handshake has finished and which is stalled sending its
\* stream to a full channel holds no accept token, so the tokens held are those
\* of handshakes in flight only.
C12_StalledHoldsNoToken ==
  \A i \in 1..Len(conn) : Stalled(i) => i \notin TokenHolders

\* the connection i is put on the secure channel in this step
PublishedSecure(i) ==
  /\ Len(secure_channel') = Len(secure_channel) + 1
  /\ secure_channel'[Len(secure_channel')] = i

\* the connections ever handed out, as one sequence
Handed ==
  secure_channel \o insecure_channel \o secure_receiver.got \o insecure_receiver.got

\* C13 (states): every stream on the secure channel or taken from it had a
\* handshake that succeeded; a connection whose handshake failed or timed out is
\* over and on no channel; no connection is handed out twice.
C13_OnlyGoodHandshakes ==
  /\ \A i \in 1..Len(conn) :
       /\ (\E k \in 1..Len(secure_channel) : secure_channel[k] = i) => conn[i].hs = "ok"
       /\ (\E k \in 1..Len(secure_receiver.got) : secure_receiver.got[k] = i)
            => conn[i].hs = "ok"
       /\ conn[i].hs \notin {"none", "ok"} =>
            (conn[i].st = "over" /\ conn[i].end = conn[i].hs /\ i \notin Published)
       /\ conn[i].end = "secure" => conn[i].hs = "ok"
  /\ \A j, k \in 1..Len(Handed) : Handed[j] = Handed[k] => j = k

\* C13: C13_OnlyGoodHandshakes always holds, and the step in which a task returns
\* puts its stream on the secure channel exactly when its handshake succeeded and
\* the secure channel is still open.
C13_SecurePublication ==
  /\ []C13_OnlyGoodHandshakes
  /\ [][\A i \in 1..Len(conn) :
          (conn[i].st \in TaskStates /\ conn'[i].st = "over") =>
            (PublishedSecure(i) <=> (conn'[i].hs = "ok" /\ secure_receiver.open))]_vars

\* one stream reached the consumer over the secure channel after a successful
\* handshake, another connection's handshake timed out and it is on no channel
C13_Witness ==
  /\ Len(conn) >= 2
  /\ conn[1].hs = "ok"
  /\ secure_receiver.got = <<1>>
  /\ conn[2].hs = "handshake timeout"
  /\ 2 \notin Published

\* the connections on the insecure channel or taken from it
PublishedInsecure ==
  {insecure_channel[k] : k \in 1..Len(insecure_channel)}
    \cup {insecure_receiver.got[k] : k \in 1..Len(insecure_receiver.got)}

\* the connections on the secure channel or taken from it
PublishedOnSecure ==
  {secure_channel[k] : k \in 1..Len(secure_channel)}
    \cup {secure_receiver.got[k] : k \in 1..Len(secure_receiver.got)}

\* C14: with the Secure sender no task ever sniffs or sends plaintext and nothing
\* is on the insecure channel; with the SecureAndInsecure sender a connection
\* routed as plaintext is on the insecure channel only and one routed to the TLS
\* accept path is never on it; sniffing takes no byte out of the receive queue,
\* so what the consumer reads from a plaintext stream is the client's bytes from
\* the first one on.
C14_ModeRouting ==
  /\ sender = "Secure" =>
       /\ PublishedInsecure = {}
       /\ \A i \in 1..Len(conn) :
            conn[i].st \notin {"sniff", "send_insecure"} /\ conn[i].end # "insecure"
  /\ \A i \in 1..Len(conn) :
       /\ (conn[i].st = "send_insecure" \/ conn[i].end = "insecure") =>
            (i \notin PublishedOnSecure /\ conn[i].hs = "none")
       /\ conn[i].end = "insecure" => i \in PublishedInsecure
       /\ (conn[i].st \in {"handshake", "send_secure"} \/ conn[i].hs # "none"
             \/ conn[i].end = "secure") => i \notin PublishedInsecure
  /\ sock_pos = Len(consumer_read)
  /\ consumer_read = SubSeq(client, 1, Len(consumer_read))
  /\ (Len(conn) >= 1 /\ conn[1].st \in {"sniff", "send_insecure"}) => sock_pos = 0

\* the sniffing looked at the five bytes of "GET /", routed the connection as
\* plaintext, and the consumer has read all five from the stream
C14_Witness ==
  /\ sender = "SecureAndInsecure"
  /\ last_peek_size = 5
  /\ conn[1].end = "insecure"
  /\ insecure_receiver.got = <<1>>
  /\ consumer_read = <<71, 69, 84, 32, 47>>

\* C15: with the SecureAndInsecure sender a connection is on the TLS accept path
\* only if at least 5 of its client's bytes have reached the socket and the
\* first 5 have the shape of a TLS record.
C15_TlsOnlyOnReceivedBytes ==
  (sender = "SecureAndInsecure" /\ Len(conn) >= 1
     /\ (conn[1].st \in {"handshake", "send_secure"} \/ conn[1].hs # "none")) =>
    /\ received >= SLICE_LENGTH
    /\ contains_tls_handshake_fragment(SubSeq(client, 1, SLICE_LENGTH))

\* C16: the function returns true exactly when the slice has at least 5 bytes,
\* the first is 0x16, the second 0x03 and the fourth and fifth, read as a
\* big-endian number without wrapping, are at most 16384; the third byte and
\* the bytes after the fifth do not matter; the two examples come out as TLS
\* and as plaintext.
C16_Classifier ==
  cl_result # <<>> =>
    /\ cl_result[1] = (/\ Len(cl_buf) >= 5
                       /\ cl_buf[1] = 22
                       /\ cl_buf[2] = 3
                       /\ cl_buf[4] * 256 + cl_buf[5] <= 16384)
    /\ Len(cl_buf) >= 5 =>
         /\ \A x \in {0, 1, 3, 255} :
              contains_tls_handshake_fragment([cl_buf EXCEPT ![3] = x]) = cl_result[1]
         /\ contains_tls_handshake_fragment(SubSeq(cl_buf, 1, 5)) = cl_result[1]
         /\ \A x \in {0, 22, 255} :
              contains_tls_handshake_fragment(Append(cl_buf, x)) = cl_result[1]
    /\ cl_buf = TlsExample => cl_result[1] = TRUE
    /\ cl_buf = GetExample => cl_result[1] = FALSE

\* a record header announcing exactly 16384 bytes was classified as TLS
C16_Witness ==
  /\ cl_buf = <<22, 3, 255, 64, 0, 255>>
  /\ cl_result = <<TRUE>>

\* C17 (states): while the loop has not been shut down it can take the next
\* raw connection, whatever the channels hold and whatever the tasks wait for.
C17_LoopCanAccept ==
  (accepting /\ Len(conn) < MaxSlowConns) => ENABLED SlowAccept

\* C17: C17_LoopCanAccept always holds, also with full channels and tasks
\* waiting to send, and a step of the loop (a connection taken, or the shutdown)
\* puts nothing on a channel: only a task's step does.
C17_AcceptorNeverStalls ==
  /\ []C17_LoopCanAccept
  /\ [][(Len(conn') # Len(conn) \/ accepting' # accepting) =>
          (secure_channel' = secure_channel /\ insecure_channel' = insecure_channel)]_vars

\* with a ceiling of 2 the secure channel is full, the third connection's task
\* waits to send, and the loop has taken a fourth connection off the listener
\* and is at its accept point again
C17_Witness ==
  /\ max_pending_accepts = 2
  /\ Len(secure_channel) = 2
  /\ Len(conn) = 4
  /\ Stalled(3)
  /\ conn[4].st = "over"
  /\ accepting

\* C18 (states): whether or not the loop has ended, a task in its sniffing or
\* handshake can finish it, and a task with a stream to send can send it unless
\* its channel is open and full.
C18_TasksRunOn ==
  \A i \in 1..Len(conn) :
    /\ conn[i].st = "sniff" => ENABLED SniffDone
    /\ conn[i].st = "handshake" => ENABLED HandshakeDone
    /\ (conn[i].st = "send_secure" /\ ~Stalled(i)) => ENABLED SendSecure
    /\ (conn[i].st = "send_insecure" /\ ~Stalled(i)) => ENABLED SendInsecure

\* C18: once the loop has seen the shutdown signal it stays ended and no raw
\* connection is taken or admitted any more; the step that ends it leaves every
\* connection's task and both channels as they are; C18_TasksRunOn always holds,
\* so the tasks spawned before still run to their end and may publish.
C18_Shutdown ==
  /\ []C18_TasksRunOn
  /\ [][~accepting => (~accepting' /\ Len(conn') = Len(conn))]_vars
  /\ [][(accepting /\ ~accepting') =>
          (/\ conn' = conn
           /\ secure_channel' = secure_channel
           /\ insecure_channel' = insecure_channel)]_vars

\* the loop has ended with room for more connections; of the two tasks spawned
\* before, one has since handed its stream to the consumer and the other is
\* still in its handshake
C18_Witness ==
  /\ ~accepting
  /\ Len(conn) = 2
  /\ conn[1].end = "secure"
  /\ secure_receiver.got = <<1>>
  /\ conn[2].st = "handshake"

\* the failures that concern one connection only
Failures ==
  {"setup failed", "sniff error", "ssl new failed", "stream new failed", "handshake failed",
   "handshake timeout", "channel closed"}

\* C19 (states): whatever has failed so far, a loop that has not been shut down
\* can take the next raw connection.
C19_LoopSurvives ==
  (accepting /\ Len(conn) < MaxConns) => ENABLED AcceptSocket

\* C19: C19_LoopSurvives always holds; a step in which a connection fails leaves
\* the loop running and every other connection as it was; a connection that
\* arrives is rejected only by the count of tokens, whatever failed before.
C19_ErrorIsolation ==
  /\ []C19_LoopSurvives
  /\ [][\A i \in 1..Len(conn') :
          ((i > Len(conn) \/ conn'[i] # conn[i]) /\ conn'[i].end \in Failures) =>
            /\ accepting' = accepting
            /\ \A j \in 1..Len(conn) : j # i => conn'[j] = conn[j]]_vars
  /\ [][Arrives => (Rejected <=> strong_count + 1 > max_pending_accepts)]_vars

\* with a ceiling of 2 (one task at a time): a socket setup failed, the next
\* connection's handshake failed, and the one after was admitted and published
C19_Witness ==
  /\ max_pending_accepts = 2
  /\ accepting
  /\ Len(conn) = 3
  /\ conn[1].end = "setup failed"
  /\ conn[2].end = "handshake failed"
  /\ conn[3].end = "secure"
  /\ secure_channel = <<3>>

ControlOps == {Close, Ping, Pong}

RECURSIVE ControlMessagesOf(_)
\* the control frames of a stream, in order, as (opcode, payload) with the
\* payload as the sender gave it
ControlMessagesOf(frames) ==
  IF frames = <<>> THEN <<>>
  ELSE (IF Head(frames).op \in ControlOps
          THEN <<[op |-> Head(frames).op, payload |-> Head(frames).payload]>>
          ELSE <<>>)
       \o ControlMessagesOf(Tail(frames))

RECURSIVE ControlEndsFrom(_, _)
\* for each control frame of a stream, the index in src of its last byte
ControlEndsFrom(frames, base) ==
  IF frames = <<>> THEN <<>>
  ELSE LET flen == Len(Encode(Head(frames)))
       IN (IF Head(frames).op \in ControlOps THEN <<base + flen>> ELSE <<>>)
          \o ControlEndsFrom(Tail(frames), base + flen)

\* C20: the messages on the control channel are the stream's control frames, one
\* message per frame and in the frames' order (a prefix of them at any time, all
\* of them once the reader reports end of stream), each with the frame's opcode
\* and its whole payload unmasked, and each enqueued only after the last byte of
\* its frame has been read from the source.
C20_ControlChannel ==
  /\ IsPrefix(channel, ControlMessagesOf(src_frames))
  /\ EndOfStream => channel = ControlMessagesOf(src_frames)
  /\ \A k \in 1..Len(channel) : src_pos >= ControlEndsFrom(src_frames, 0)[k]

\* the masked Ping has been delivered with its payload unmasked; the Close
\* frame's header has been parsed, but its two payload bytes are not all
\* buffered yet, so it is held back
C20_Witness ==
  /\ channel = <<[op |-> Ping, payload |-> <<7, 130>>]>>
  /\ header # <<>>
  /\ header[1].frametype = Close
  /\ Len(read_buffer[1]) < header[1].payload_len

\* C21: in a frame create_frame returns, a payload of 0..125 bytes has its
\* length in the second byte; one of 126..65535 bytes has length code 126 and
\* the length in the next 2 bytes, big-endian; one of 65536 bytes or more has
\* length code 127 and the length in the next 8 bytes, big-endian.
C21_LengthBoundaries ==
  (cf_result # <<>> /\ cf_result[1].ok) =>
    LET b == cf_result[1].bytes
        n == Len(cf_data)
        code == b[2] % 128
    IN /\ n <= 125 => code = n
       /\ (126 <= n /\ n <= 65535) => (code = 126 /\ BeValue(SubSeq(b, 3, 4)) = n)
       /\ n >= 65536 => (code = 127 /\ BeValue(SubSeq(b, 3, 10)) = n)

\* the first byte has no reserved bit, a known opcode, and fin if it is a
\* control frame's, and a control frame's payload is at most 125 bytes
WellFormed(in) ==
  /\ ReservedBits(in.first) = 0
  /\ OpCodeOf(in.first) \in OpCodes
  /\ is_control(OpCodeOf(in.first)) => (in.first >= 128 /\ in.n <= 125)

\* C22 (as stated): after try_from_bytes has answered "need N more" on the
\* bytes of a well-formed frame and has been given exactly N more, it returns
\* the header.
C22_NeedThenSuccess ==
  (WellFormed(p_in) /\ p_hist # <<>> /\ p_result # <<>>) => p_result[1].kind = "Header"

\* C22 (corrected): a "need N more" answer has N > 0 and never asks for bytes
\* beyond the end of the header; given exactly N more, a well-formed frame gets
\* either its header or another such answer, and at most three of them (for the
\* two fixed bytes, the extended length, the mask) come before the header; with
\* the whole header at hand the answer is the header.
C22_NeedIsProgress ==
  /\ Len(p_hist) <= 3
  /\ \A k \in 1..Len(p_hist) : p_hist[k] > 0
  /\ p_result # <<>> =>
       /\ p_result[1].kind = "Need" =>
            /\ p_result[1].n > 0
            /\ p_len + p_result[1].n <= HeaderLen(p_in)
       /\ WellFormed(p_in) =>
            /\ p_result[1].kind \in {"Need", "Header"}
            /\ p_len >= HeaderLen(p_in) =>
                 /\ p_result[1].kind = "Header"
                 /\ p_result[1].header_len = HeaderLen(p_in)
                 /\ p_result[1].payload_len = p_in.n
                 /\ p_result[1].mask = p_in.mask

\* starting with no byte of a masked frame with a 64-bit length, the caller
\* was asked for 2, then 8, then 4 bytes, and then got the header
C22_Witness ==
  /\ p_hist = <<2, 8, 4>>
  /\ p_result # <<>>
  /\ p_result[1].kind = "Header"
  /\ p_result[1].header_len = 14

\* C23: for a control opcode with fin, try_from_bytes with the length field at
\* hand returns Invalid exactly when the decoded payload length exceeds 125,
\* and create_frame fails, returning no bytes, exactly when the payload is
\* longer than 125 bytes; 125 passes both.
C23_ControlAtMost125 ==
  LET op == OpCodeOf(p_in.first)
      control == ReservedBits(p_in.first) = 0 /\ op \in OpCodes /\ is_control(op)
  IN /\ (p_result # <<>> /\ control /\ p_in.first >= 128 /\ p_len >= 2 + ExtLen(p_in)) =>
          (p_result[1].kind = "Invalid" <=> p_in.n > 125)
     /\ (p_created # <<>> /\ control) =>
          /\ p_created[1].ok <=> p_in.n <= 125
          /\ ~p_created[1].ok => DOMAIN p_created[1] = {"ok"}

\* a Ping of 126 bytes: the header, its 16-bit length at hand, is Invalid and
\* create_frame refuses to build the frame
C23_Witness ==
  /\ p_in.first = 137
  /\ p_in.n = 126
  /\ p_len = 4
  /\ p_result = <<[kind |-> "Invalid"]>>
  /\ p_created = <<[ok |-> FALSE]>>

\* C24: on 2 bytes or more try_from_bytes returns Invalid if a reserved bit of
\* the first byte is set, if the opcode is not one of 0, 1, 2, 8, 9, 10, or if
\* the opcode is a control one and fin is 0; a header it returns for a control
\* frame has fin set and a payload of at most 125 bytes.
C24_MalformedFirstByte ==
  p_result # <<>> =>
    /\ (/\ p_len >= 2
        /\ \/ (p_in.first \div 16) % 8 # 0
           \/ p_in.first % 16 \notin {0, 1, 2, 8, 9, 10}
           \/ (p_in.first % 16 \in {8, 9, 10} /\ p_in.first < 128))
         => p_result[1].kind = "Invalid"
    /\ (p_result[1].kind = "Header" /\ is_control(p_result[1].frametype)) =>
         (p_result[1].fin /\ p_result[1].payload_len <= 125)

\* a Ping header with a reserved bit set was refused on its first two bytes
C24_Witness ==
  /\ p_in.first = 201
  /\ p_len = 2
  /\ p_result = <<[kind |-> "Invalid"]>>

\* the reference masking: byte i (from 0) XOR mask[i % 4], nothing without a mask
NaiveMask(mask, data) ==
  IF mask = <<>> THEN data
  ELSE [i \in 1..Len(data) |-> Xor(data[i], mask[((i - 1) % 4) + 1])]

\* the bytes a frame's length field takes, read off its second byte
LengthFieldLen(b) ==
  CASE b[2] % 128 = 126 -> 3
    [] b[2] % 128 = 127 -> 9
    [] OTHER -> 1

\* C25: in every frame create_frame returns, the first byte is 0x80 | opcode (fin
\* set, reserved bits zero), bit 7 of the second byte is set exactly when a mask
\* was given, the 4 mask bytes follow the length field when there is a mask, and
\* the payload XORed with the mask follows and ends the frame; the three frames
\* of the documentation come out byte for byte.
C25_FrameLayout ==
  (cf_result # <<>> /\ cf_result[1].ok) =>
    LET b == cf_result[1].bytes
        off == 1 + LengthFieldLen(b) + Len(cf_mask)
    IN /\ b[1] \div 128 = 1
       /\ (b[1] \div 16) % 8 = 0
       /\ b[1] % 16 = cf_frametype
       /\ (b[2] >= 128) <=> (cf_mask # <<>>)
       /\ SubSeq(b, 2 + LengthFieldLen(b), off) = cf_mask
       /\ Len(b) = off + Len(cf_data)
       /\ SubSeq(b, off + 1, Len(b)) = (IF cf_mask \in {<<>>, <<0, 0, 0, 0>>} THEN cf_data
                                         ELSE NaiveMask(cf_mask, cf_data))
       /\ (cf_data = DocData /\ cf_mask = <<>> /\ cf_frametype = Text)
            => b = <<129, 5, 0, 1, 2, 3, 4>>
       /\ (cf_data = DocData /\ cf_mask = DocMask /\ cf_frametype = Text)
            => b = <<129, 133, 0, 1, 2, 3, 0, 0, 0, 0, 4>>
       /\ (cf_data = DocData /\ cf_mask = <<>> /\ cf_frametype = Ping)
            => b = <<137, 5, 0, 1, 2, 3, 4>>

\* the masked frame of the documentation has been built
C25_Witness ==
  /\ cf_data = DocData
  /\ cf_mask = DocMask
  /\ cf_frametype = Text
  /\ cf_result = <<[ok |-> TRUE, bytes |-> <<129, 133, 0, 1, 2, 3, 0, 0, 0, 0, 4>>]>>

\* C26: for every payload length tried (0, 1, 2, 3, 4, 5, 31, 32, 33, 100, 125,
\* 126) and every alignment of the buffer's start, mask_bytes leaves the buffer
\* with byte i XORed with mask[i % 4]; without a mask, or with the mask
\* [0,0,0,0], it leaves the buffer as it was, at every length up to 65536.
C26_MaskMatchesNaive ==
  masked # <<>> =>
    /\ cf_mask \in {<<>>, <<0, 0, 0, 0>>} => masked[1] = cf_data
    /\ Len(cf_data) <= 126 => masked[1] = NaiveMask(cf_mask, cf_data)

\* 100 bytes in a buffer that starts 3 bytes after a word boundary, so that
\* mask_bytes works through a prefix, whole words and a suffix
C26_Witness ==
  /\ masked # <<>>
  /\ Len(cf_data) = 100
  /\ cf_align = 3
  /\ cf_mask = <<1, 2, 3, 4>>
  /\ masked[1] # cf_data

\* C27: mask_bytes applied twice with the same mask gives back the payload,
\* whatever the payload's length and wherever the buffer lay each time.
C27_MaskSelfInverse ==
  remasked # <<>> => remasked[1] = cf_data

\* 33 bytes masked twice with a mask that changes every byte
C27_Witness ==
  /\ remasked # <<>>
  /\ Len(cf_data) = 33
  /\ cf_mask = <<1, 2, 3, 4>>
  /\ masked[1] # cf_data

\* a header value HeaderValue::to_str accepts: visible ASCII and tabs only
Readable(v) ==
  \A i \in 1..Len(v) : v[i] = 9 \/ v[i] \in 32..126

\* C28 as stated: WebSocket::new succeeds exactly when the request has Upgrade
\* equal to "websocket", Sec-WebSocket-Version equal to "13", a Sec-WebSocket-Key
\* and a Sec-WebSocket-Protocol.
C28_SucceedsIffPresent ==
  ws_new # <<>> =>
    (ws_new[1].ok <=> /\ req_headers[UPGRADE] = <<StrWebsocket>>
                      /\ req_headers[SEC_WEBSOCKET_VERSION] = <<Str13>>
                      /\ req_headers[SEC_WEBSOCKET_KEY] # <<>>
                      /\ req_headers[SEC_WEBSOCKET_PROTOCOL] # <<>>)

\* C28: WebSocket::new succeeds exactly when the request has Upgrade equal to
\* "websocket", Sec-WebSocket-Version equal to "13", and a Sec-WebSocket-Key and
\* a Sec-WebSocket-Protocol whose values are visible ASCII; otherwise it returns
\* an error and neither a relay object nor a response; on success the response
\* has status 101, Upgrade: websocket, Connection: Upgrade, the
\* Sec-WebSocket-Accept computed from the request's key and the request's
\* Sec-WebSocket-Protocol value.
C28_UpgradeValidation ==
  ws_new # <<>> =>
    LET r == ws_new[1]
        key == req_headers[SEC_WEBSOCKET_KEY]
        proto == req_headers[SEC_WEBSOCKET_PROTOCOL]
    IN /\ r.ok <=> /\ req_headers[UPGRADE] = <<StrWebsocket>>
                   /\ req_headers[SEC_WEBSOCKET_VERSION] = <<Str13>>
                   /\ key # <<>> /\ Readable(key[1])
                   /\ proto # <<>> /\ Readable(proto[1])
       /\ ~r.ok => DOMAIN r = {"ok", "err"}
       /\ r.ok => /\ DOMAIN r = {"ok", "ws", "response"}
                  /\ r.response.status = 101
                  /\ r.response.upgrade = StrWebsocket
                  /\ r.response.connection = StrUpgrade
                  /\ r.response.sec_websocket_accept
                       = [base64_sha1_of |-> key[1], followed_by |-> MAGIC_WEBSOCKET_GUID]
                  /\ r.response.sec_websocket_protocol = proto[1]

\* a request for binary framing has been accepted
C28_Witness ==
  /\ ws_new # <<>>
  /\ ws_new[1].ok
  /\ req_headers[SEC_WEBSOCKET_PROTOCOL] = <<StrBinary>>
  /\ ws_new[1].response.sec_websocket_protocol = StrBinary

RECURSIVE FrameHeaders(_)
\* the headers of the complete frames at the start of a byte string
FrameHeaders(bytes) ==
  LET h == try_from_bytes(bytes)
  IN IF h.kind # "Header" THEN <<>>
     ELSE IF Len(bytes) < h.header_len + h.payload_len THEN <<>>
     ELSE <<h>> \o FrameHeaders(SubSeq(bytes, h.header_len + h.payload_len + 1, Len(bytes)))

\* C29: the relay's writer frames as Text exactly when the request's
\* Sec-WebSocket-Protocol value was "text"; at every moment of the relay every
\* data frame the upstream has received is Text in that case and Binary in
\* every other, each completed write is among them, and every frame received
\* has fin set and no mask.
C29_FramingFollowsProtocol ==
  LET proto == req_headers[SEC_WEBSOCKET_PROTOCOL][1]
      wanted == IF proto = StrText THEN Text ELSE Binary
      got == FrameHeaders(sink)
      IsData(h) == h.frametype \in {Continuation, Text, Binary}
  IN /\ text <=> (proto = StrText)
     /\ \A i \in 1..Len(got) :
          /\ got[i].fin
          /\ got[i].mask = <<>>
          /\ IsData(got[i]) => got[i].frametype = wanted
     /\ Len(SelectSeq(got, IsData)) >= Len(w_done)

\* a relay promoted with the protocol "base64" has written a data frame and
\* returned
C29_Witness ==
  /\ req_headers[SEC_WEBSOCKET_PROTOCOL] = <<StrBase64>>
  /\ Len(w_done) >= 1
  /\ Len(FrameHeaders(sink)) >= 2
  /\ FrameHeaders(sink)[1].frametype = Binary
  /\ pc = "returned"

\* the source is at its end and the reader holds nothing of a frame: no header
\* whose payload is outstanding and no byte in its buffer, wherever the buffer is
AtCleanEof ==
  /\ src_pos = Len(src)
  /\ header = <<>>
  /\ read_buffer = << <<>> >> \/ rd_future = << <<>> >>

\* what a step may do once the source is at its end with no frame pending
CleanEofStep ==
  AtCleanEof =>
    /\ AtCleanEof'
    /\ out' = out
    /\ channel' = channel
    /\ rd_ret' # rd_ret => rd_ret' \in {[kind |-> "none"], Ret("Ok", 0)}
    /\ (state = "WaitingForData" /\ state' # state) => (rd_ret' = Ret("Ok", 0) /\ rd_call' = <<>>)

\* C30: once the source is at its end with no frame pending, the read that finds
\* the source at EOF returns Ok(0), every later read returns nothing but Ok(0),
\* never an error, and no byte is returned and no control message delivered
\* from then on.
C30_CleanEndOfStream ==
  [][CleanEofStep]_vars

\* after data and a control message, zero bytes have been reported and the
\* reader is ready for the next read
C30_Witness ==
  /\ AtCleanEof
  /\ rd_ret = Ret("Ok", 0)
  /\ state = "HaveData"
  /\ Len(out) >= 1
  /\ Len(channel) >= 1

\* where the malformed header starts in the source
GoodLen ==
  Len(EncodeAll(src_frames))

\* the reader is about to parse a header from a buffer that starts with a
\* malformed one
AtInvalidHeader ==
  /\ rd_call # <<>>
  /\ state = "HaveData"
  /\ header = <<>>
  /\ read_buffer # <<>>
  /\ try_from_bytes(read_buffer[1]).kind = "Invalid"

\* a read has failed
ReadFailed ==
  rd_ret.kind = "Err"

\* no byte and no control message located after the malformed header has been
\* delivered
C31_NothingPastInvalid ==
  /\ \A i \in 1..Len(out_pos) : out_pos[i] <= GoodLen
  /\ IsPrefix(out_pos, src_expect.pos)
  /\ Len(channel) <= Len(SelectSeq(src_frames, LAMBDA f : is_control(f.op)))

\* what a step does at a malformed header and after a failed read
C31_FailStep ==
  /\ AtInvalidHeader => (ReadFailed' /\ rd_call' = <<>>)
  /\ ReadFailed => (rd_ret'.kind \in {"Err", "none"} /\ out' = out /\ channel' = channel)
  /\ (rd_ret.kind = "none" /\ read_buffer = <<>> /\ rd_future = <<>>)
       => rd_ret'.kind \in {"Err", "none"}

\* C31: when the reader meets a malformed header (reserved bits, unknown
\* opcode, control frame without fin, control payload over 125) the read fails,
\* every later read fails as well, and no data byte and no control message
\* from after the malformed header is ever delivered.
C31_ProtocolErrorFatal ==
  []C31_NothingPastInvalid /\ [][C31_FailStep]_vars

\* after a data frame and then a malformed header, a read has failed a second
\* time
C31_Witness ==
  /\ ReadFailed
  /\ read_buffer = <<>>
  /\ rd_future = <<>>
  /\ Len(out) >= 1
  /\ src_pos >= GoodLen + 2

\* the calls that named a source of the key and certificate
CalledOp(op) ==
  SelectSeq(builder_calls, LAMBDA c : c.op = op)

\* the arguments of the last call of a method
LastCall(op) ==
  CalledOp(op)[Len(CalledOp(op))]

\* C32: build uses the in-memory key and certificate whenever certificate() was
\* called, otherwise the PEM paths if certificate_paths_pem() was called,
\* otherwise a generated self-signed certificate, whatever the order of the
\* calls.
C32_SourcePrecedence ==
  built # <<>> =>
    built[1].source =
      IF CalledOp("certificate") # <<>>
        THEN KeyCert(LastCall("certificate").key, LastCall("certificate").cert)
      ELSE IF CalledOp("certificate_paths_pem") # <<>>
        THEN FilesPem(LastCall("certificate_paths_pem").key, LastCall("certificate_paths_pem").cert)
      ELSE SelfSigned

RECURSIVE WholeLen(_)
\* the length of the complete frames at the start of a byte string
WholeLen(bytes) ==
  LET h == try_from_bytes(bytes)
  IN IF h.kind # "Header" THEN 0
     ELSE IF Len(bytes) < h.header_len + h.payload_len THEN 0
     ELSE h.header_len + h.payload_len
          + WholeLen(SubSeq(bytes, h.header_len + h.payload_len + 1, Len(bytes)))

\* what the upstream holds after its last complete frame
Torn ==
  SubSeq(sink, WholeLen(sink) + 1, Len(sink))

\* C33 as stated: what the upstream has received is complete frames followed by
\* at most a prefix of one data frame.
C33_OnlyDataTorn ==
  Torn # <<>> => OpCodeOf(Torn[1]) \in DataOps

\* C33: what the upstream has received is at all times complete frames followed
\* by at most a prefix of one frame, the one being written: the data frame the
\* writer holds, up to its write offset, or the control frame write_all has
\* not finished (or gave up when the upstream failed, which ends the relay with
\* that error); a Pong or Close is never written while a data frame is partly
\* written, and no data frame while a control frame is.
C33_UpstreamWellFormed ==
  /\ frame # <<>> =>
       /\ ctl_out = <<>>
       /\ Torn = Front(frame[1].bytes, frame[1].pos)
       /\ frame[1].pos < Len(frame[1].bytes)
       /\ OpCodeOf(frame[1].bytes[1]) \in DataOps
  /\ (frame = <<>> /\ ctl_out # <<>>) =>
       /\ is_control(OpCodeOf((Torn \o ctl_out)[1]))
       /\ WholeLen(Torn \o ctl_out) = Len(Torn) + Len(ctl_out)
       /\ Len(FrameHeaders(Torn \o ctl_out)) = 1
  /\ (frame = <<>> /\ ctl_out = <<>> /\ Torn # <<>>) =>
       /\ is_control(OpCodeOf(Torn[1]))
       /\ sink_failed
       /\ pc = "returned"
       /\ sv_result.kind = "Err"

\* a Pong was written, and a data frame is partly written, the sink having
\* taken two of its three bytes, while a further Ping waits on the channel
C33_Witness ==
  /\ Len(FrameHeaders(sink)) = 1
  /\ FrameHeaders(sink)[1].frametype = Pong
  /\ frame # <<>>
  /\ Len(Torn) = 2
  /\ channel # <<>>
  /\ Head(channel).op = Ping

\* a Close frame, whole or in part, has reached the upstream
CloseStarted ==
  \/ SelectSeq(Upstream, IsClose) # <<>>
  \/ Torn # <<>> /\ OpCodeOf(Torn[1]) = Close

\* the upstream holds at most one Close frame, whole or begun; nothing follows a
\* whole one and only its own bytes follow a begun one; it is the echo of the
\* Close taken from the channel or, after the downstream's end of stream, the
\* status-1000 Close, according to how copy_to_websocket ended
C34_OneClose ==
  /\ Len(SelectSeq(Upstream, IsClose)) <= 1
  /\ \A i \in 1..Len(Upstream) :
       IsClose(Upstream[i]) =>
         /\ i = Len(Upstream)
         /\ Torn = <<>>
         /\ ctl_out = <<>>
         /\ frame = <<>>
         /\ \/ /\ b_result = OkBool(TRUE)
               /\ Len(SelectSeq(Taken, IsClose)) = 1
               /\ Upstream[i].payload = SelectSeq(Taken, IsClose)[1].payload
            \/ /\ b_result = OkBool(FALSE)
               /\ SelectSeq(Taken, IsClose) = <<>>
               /\ Upstream[i].payload = StatusNormal
  /\ (Torn # <<>> /\ OpCodeOf(Torn[1]) = Close) =>
       /\ SelectSeq(Upstream, IsClose) = <<>>
       /\ frame = <<>>
       /\ pc \in {"echo", "close1000", "returned"}
       /\ pc = "echo" => b_result = NoResult
       /\ pc = "close1000" => b_result = OkBool(FALSE)

\* a step taken once a Close frame has begun to reach the upstream adds only
\* bytes of that frame, and none once the frame is whole
C34_AfterCloseStep ==
  CloseStarted =>
    /\ SelectSeq(Upstream, IsClose) # <<>> => sink' = sink
    /\ sink' # sink =>
         /\ pc \in {"echo", "close1000"}
         /\ sink' = sink \o Front(ctl_out, Len(sink') - Len(sink))
         /\ Len(ParseFrames(sink')) <= Len(Upstream) + 1

\* C34: over a run of serve_connection at most one Close frame is written to
\* the upstream, the echo of a client Close or the status-1000 Close and never
\* both, also when the downstream's end of stream and a client Close race; no
\* data frame and no Pong is written after a Close frame.
C34_AtMostOneClose ==
  []C34_OneClose /\ [][C34_AfterCloseStep]_vars

\* the downstream's end of stream won the race against a client Close: the
\* status-1000 Close is the upstream's last frame, after a relayed chunk, and
\* the client's Close still waits on the channel, never echoed
C34_Witness ==
  /\ pc = "returned"
  /\ b_result = OkBool(FALSE)
  /\ sv_result = OkUnit
  /\ \E i \in 1..Len(channel) : channel[i].op = Close
  /\ Len(Upstream) = 2
  /\ IsDataFrame(Upstream[1])
  /\ Upstream[2] = [op |-> Close, payload |-> StatusNormal]

\* the data frames that have reached the upstream whole
DataAtUpstream ==
  SelectSeq(Upstream, IsDataFrame)

FrameEnd(i) ==
  Len(EncodeAll(SubSeq(src_frames, 1, i)))

\* the frame of the source that holds the byte src[p]
FrameAt(p) ==
  CHOOSE i \in 1..Len(src_frames) : FrameEnd(i - 1) < p /\ p <= FrameEnd(i)

\* the receive buffer, in the reader or in its pending read
Buffered ==
  IF read_buffer # <<>> THEN read_buffer[1]
  ELSE IF rd_future # <<>> THEN rd_future[1]
  ELSE <<>>

\* this step returns a positive count to the caller
ReturnsBytes ==
  /\ rd_call # <<>>
  /\ rd_call' = <<>>
  /\ rd_ret'.kind = "Ok"
  /\ rd_ret'.n > 0

\* a header kept has payload left (data frame) or awaits its whole payload
\* (control frame); the source is read with a data header pending only when no
\* byte is buffered
C36_HeaderKept ==
  header # <<>> =>
    IF is_control(header[1].frametype)
      THEN state # "HaveData" => Len(Buffered) < header[1].payload_len
      ELSE /\ header[1].payload_len > 0
           /\ state # "HaveData" => Buffered = <<>>

\* a step of poll_read with a payload byte of the current data frame buffered
\* returns to the caller; a step that returns n bytes returns the next n payload
\* bytes of one data frame of the source, n the least of the caller's space,
\* what is left of that frame's payload and what the source has delivered of
\* it; the header is kept with what is then left, and dropped when nothing is
C36_ReadStep ==
  /\ ( /\ rd_call # <<>>
       /\ state = "HaveData"
       /\ read_buffer # <<>>
       /\ \/ /\ header # <<>>
             /\ ~is_control(header[1].frametype)
             /\ read_buffer[1] # <<>>
          \/ /\ header = <<>>
             /\ LET r == try_from_bytes(read_buffer[1])
                IN /\ r.kind = "Header"
                   /\ ~is_control(r.frametype)
                   /\ r.payload_len > 0
                   /\ Len(read_buffer[1]) > r.header_len )
     => ReturnsBytes
  /\ ReturnsBytes =>
       LET n == rd_ret'.n
           first == src_expect.pos[Len(out) + 1]
           endp == FrameEnd(FrameAt(first))
       IN /\ Len(out') = Len(out) + n
          /\ Len(out_pos') = Len(out')
          /\ Len(out') <= Len(src_expect.pos)
          /\ first + n - 1 <= Len(src)
          /\ \A k \in 1..n : /\ out_pos'[Len(out) + k] = first + k - 1
                             /\ FrameAt(first + k - 1) = FrameAt(first)
          /\ src_frames[FrameAt(first)].op \in DataOps
          /\ n = Min(rd_call[1], Min(endp - first + 1, src_pos - first + 1))
          /\ IF first + n - 1 = endp
               THEN header' = <<>>
               ELSE /\ header' # <<>>
                    /\ ~is_control(header'[1].frametype)
                    /\ header'[1].payload_len = endp - (first + n - 1)

\* C36: once a payload byte of the current data frame is buffered, a read with
\* positive caller space returns n = min(caller space, remaining payload of the
\* frame, buffered bytes) > 0 without reading the source again; the bytes of one
\* read never span two frames; the remaining payload is decremented by n and the
\* header dropped exactly when it reaches zero.
C36_PartialReads ==
  []C36_HeaderKept /\ [][C36_ReadStep]_vars

\* a read returned the one byte buffered of a data frame whose payload is
\* longer: the header is kept with what is left and the buffer is empty
C36_Witness ==
  /\ rd_call = <<>>
  /\ rd_ret = Ret("Ok", 1)
  /\ header # <<>>
  /\ ~is_control(header[1].frametype)
  /\ state = "NoData"
  /\ Len(out) = 1

\* the connection's task is in wait_for_client_tls_handshake
Sniffing ==
  Len(conn) >= 1 /\ conn[1].st = "sniff"

\* a step of a sniffing task keeps it sniffing, decides, or ends it on a failed
\* peek; it decides for TLS only on a buffer that matches; a poll that goes on
\* has seen more bytes than the one before; a poll that sees no more bytes than
\* the one before decides, for plaintext unless the buffer matches; the timeout
\* decides for plaintext; while the client has sent nothing and has not closed,
\* only the timeout decides, and once it has closed without sending, a poll does
C37_DecisionStep ==
  Sniffing =>
    /\ \/ conn'[1].st \in {"sniff", "handshake", "send_insecure"}
       \/ conn'[1] = Returned(conn[1], "sniff error")
    /\ conn'[1].st = "handshake" => contains_tls_handshake_fragment(peek_buf')
    /\ (conn'[1].st = "sniff" /\ last_peek_size' # last_peek_size) =>
         /\ last_peek_size' > last_peek_size
         /\ last_peek_size' = Len(Queued)
    /\ (Peek /\ Len(Queued) = last_peek_size) =>
         conn'[1].st = IF contains_tls_handshake_fragment(peek_buf')
                         THEN "handshake" ELSE "send_insecure"
    /\ SniffTimeout => conn'[1].st = "send_insecure"
    /\ (received = 0 /\ conn'[1].st # "sniff") =>
         \/ conn'[1].st = "send_insecure" /\ (client_eof \/ SniffTimeout)
         \/ conn'[1] = Returned(conn[1], "sniff error")
    /\ (received = 0 /\ client_eof /\ Peek) => conn'[1].st = "send_insecure"

\* C37: in TLS-optional mode the sniff of a connection terminates: a task in
\* wait_for_client_tls_handshake leaves it, every step obeying C37_DecisionStep;
\* a client that sends nothing is classified plaintext by the timeout, one that
\* closes before sending anything is classified plaintext.
C37_SniffDecides ==
  /\ [][C37_DecisionStep]_vars
  /\ Sniffing ~> ~Sniffing

\* the client has sent nothing and has not closed, no poll has returned, and
\* the connection is on its way out as plaintext
C37_Witness ==
  /\ Len(conn) >= 1
  /\ conn[1].st = "send_insecure"
  /\ received = 0
  /\ ~client_eof
  /\ last_peek_size = 0

\* this step is an answer of the underlying writer that accepted no byte
AcceptedNothing ==
  w_spins' > w_spins

\* C38: a poll of WebSocketWriter::poll_write in which the underlying writer
\* reports that it accepted zero bytes ends, with an error or a count, instead
\* of handing the underlying writer the same bytes again.
C38_ZeroEndsWrite ==
  [][AcceptedNothing => (~w_call' /\ w_ret'.kind \in {"Ok", "Err"})]_vars

\* the lengths at which a stage of the header ends: the two fixed bytes, the
\* extended length, the mask
StageEnds(in) ==
  {2, 2 + ExtLen(in), HeaderLen(in)}

\* C39: a "need N more" answer on L bytes has N >= 1 and L + N at most the
\* frame's header length; a caller that supplies exactly N more each time stands
\* at the end of a stage of the header, gets no fourth such answer, and so has a
\* header or Invalid after at most three retries; a header obtained this way was
\* parsed from exactly header_len bytes, none of them a payload byte.
C39_RetryTerminates ==
  /\ Len(p_hist) <= 3
  /\ p_hist # <<>> =>
       /\ p_len \in StageEnds(p_in)
       /\ \A k \in 1..Len(p_hist) : p_hist[k] >= 1
  /\ p_result # <<>> =>
       /\ p_result[1].kind \in {"Need", "Header", "Invalid"}
       /\ p_result[1].kind = "Need" =>
            /\ p_result[1].n >= 1
            /\ p_len + p_result[1].n <= HeaderLen(p_in)
            /\ p_len + p_result[1].n \in StageEnds(p_in)
            /\ Len(p_hist) < 3
       /\ p_len >= HeaderLen(p_in) => p_result[1].kind \in {"Header", "Invalid"}
       /\ p_result[1].kind = "Header" =>
            /\ p_result[1].header_len = HeaderLen(p_in)
            /\ p_hist # <<>> => p_len = p_result[1].header_len

\* from one byte of an unmasked frame with a 16-bit length the caller was asked
\* for 1 and then for 2 bytes, and the header came from its 4 bytes
C39_Witness ==
  /\ p_hist = <<1, 2>>
  /\ p_len = 4
  /\ p_result # <<>>
  /\ p_result[1].kind = "Header"
  /\ p_result[1].header_len = 4

\* the reader and the receive buffer are in the pending read exactly in
\* WaitingForData, and in the WebSocketReader otherwise
C40_Ownership ==
  /\ Len(rd_future) <= 1
  /\ state = "WaitingForData" <=> rd_future # <<>>
  /\ state = "WaitingForData" => (~reader /\ read_buffer = <<>>)
  /\ state \in {"NoData", "HaveData"} => (reader /\ read_buffer # <<>>)

\* a read of the source is started only from NoData
C40_StartStep ==
  (rd_future = <<>> /\ rd_future' # <<>>) => (state = "NoData" /\ state' = "WaitingForData")

\* C40: in every reachable state of WebSocketReader at most one read of the
\* source is outstanding; the source reader and the receive buffer are owned by
\* the pending read exactly while the state is WaitingForData and are both back
\* in the reader whenever the state is NoData or HaveData; a new source read is
\* started only from NoData.
C40_SingleOutstandingRead ==
  []C40_Ownership /\ [][C40_StartStep]_vars

=============================================================================
